---- MODULE Spec2Model ----
(***************************************************************************)
(* A model of the AI assistant proposal/approval subsystem of surmai:      *)
(* backend/routes/trip_assistant.go.                                       *)
(*                                                                         *)
(*   Spec          one streaming turn: TripAssistantStream and             *)
(*                 streamResponsesToClient with its functionCallBuffer.    *)
(*   SpecDecision  the proposal store, concurrent AssistantProposalDecision*)
(*                 requests and the record store they write to.            *)
(*   SpecApply     one decision request at a time, on proposals of every   *)
(*                 tool.                                                   *)
(*   SpecRequests  one decision request at a time, of every kind.          *)
(*                                                                         *)
(* Text that the code parses (the arguments of a function call) is a       *)
(* sequence of one-character strings; text the code only forwards or       *)
(* compares is a TLA+ string.                                              *)
(***************************************************************************)
EXTENDS Integers, Sequences, FiniteSets, TLC

(***************************************************************************)
(* Bounds of the model.                                                    *)
(***************************************************************************)
\* response.output_text.delta, response.completed and response.error
\* events of one streaming turn
MaxEvents == 3
\* characters of one arguments-delta fragment of the streaming turn
FragLen == 5
\* proposals put in the store
MaxProposals == 1
\* the last minute of the clock
MaxClock == 3

(***************************************************************************)
(* Program constants.                                                      *)
(***************************************************************************)
\* const proposalTTL = 2 * time.Minute; one clock unit is one minute
proposalTTL == 2

(***************************************************************************)
(* Text and JSON values.                                                   *)
(***************************************************************************)
EmptyMap == [k \in {} |-> 0]

\* a decoded JSON value: a string or a number
Str(s) == [kind |-> "str", s |-> s, n |-> 0]
Num(n) == [kind |-> "num", s |-> <<>>, n |-> n]

Digits == {"0", "1", "2", "3", "4", "5", "6", "7", "8", "9"}

DigitVal(c) ==
    CASE c = "0" -> 0 [] c = "1" -> 1 [] c = "2" -> 2 [] c = "3" -> 3
      [] c = "4" -> 4 [] c = "5" -> 5 [] c = "6" -> 6 [] c = "7" -> 7
      [] c = "8" -> 8 [] c = "9" -> 9

DigitChar(d) ==
    CASE d = 0 -> "0" [] d = 1 -> "1" [] d = 2 -> "2" [] d = 3 -> "3"
      [] d = 4 -> "4" [] d = 5 -> "5" [] d = 6 -> "6" [] d = 7 -> "7"
      [] d = 8 -> "8" [] d = 9 -> "9"

RECURSIVE FormatNat(_)
FormatNat(n) ==
    IF n < 10 THEN <<DigitChar(n)>>
    ELSE FormatNat(n \div 10) \o <<DigitChar(n % 10)>>

IsSpace(c) == c \in {" ", "\n", "\t", "\r"}

RECURSIVE TrimLeft(_)
TrimLeft(s) ==
    IF s # <<>> /\ IsSpace(Head(s)) THEN TrimLeft(Tail(s)) ELSE s

RECURSIVE TrimRight(_)
TrimRight(s) ==
    IF s # <<>> /\ IsSpace(s[Len(s)])
    THEN TrimRight(SubSeq(s, 1, Len(s) - 1))
    ELSE s

TrimSpace(s) == TrimRight(TrimLeft(s))

\* index of the first non-space character of s at or after i (Len(s)+1 if none)
RECURSIVE SkipSpace(_, _)
SkipSpace(s, i) ==
    IF i <= Len(s) /\ IsSpace(s[i]) THEN SkipSpace(s, i + 1) ELSE i

\* index of the first quote of s at or after i (Len(s)+1 if none)
RECURSIVE FindQuote(_, _)
FindQuote(s, i) ==
    IF i <= Len(s) /\ s[i] # "\"" THEN FindQuote(s, i + 1) ELSE i

\* index after the last digit of the run of digits of s that starts at i
RECURSIVE SkipDigits(_, _)
SkipDigits(s, i) ==
    IF i <= Len(s) /\ s[i] \in Digits THEN SkipDigits(s, i + 1) ELSE i

RECURSIVE ParseNat(_)
ParseNat(s) ==
    IF s = <<>> THEN 0
    ELSE 10 * ParseNat(SubSeq(s, 1, Len(s) - 1)) + DigitVal(s[Len(s)])

ParseFail == [ok |-> FALSE, val |-> Str(<<>>), next |-> 0]

\* a JSON string without escapes that starts at s[i]; a control character
\* inside a string literal is a syntax error
ParseString(s, i) ==
    IF i > Len(s) \/ s[i] # "\"" THEN ParseFail
    ELSE LET j == FindQuote(s, i + 1)
         IN  IF j > Len(s) THEN ParseFail
             ELSE IF \E k \in (i + 1)..(j - 1) : s[k] \in {"\n", "\t", "\r"} THEN ParseFail
             ELSE [ok |-> TRUE, val |-> Str(SubSeq(s, i + 1, j - 1)), next |-> j + 1]

\* a JSON value that starts at s[i]: a string or a non-negative integer
ParseValue(s, i) ==
    IF i > Len(s) THEN ParseFail
    ELSE IF s[i] = "\"" THEN ParseString(s, i)
    ELSE IF s[i] \in Digits
         THEN LET j == SkipDigits(s, i)
              IN  IF j > i + 1 /\ s[i] = "0" THEN ParseFail
                  ELSE [ok |-> TRUE, val |-> Num(ParseNat(SubSeq(s, i, j - 1))), next |-> j]
    ELSE ParseFail

UnmarshalFail == [ok |-> FALSE, args |-> EmptyMap]

\* the members of an object from s[i] on, acc the members decoded so far;
\* a repeated key keeps its last value
RECURSIVE ParseMembers(_, _, _)
ParseMembers(s, i, acc) ==
    LET k == ParseString(s, SkipSpace(s, i))
    IN  IF ~k.ok THEN UnmarshalFail
        ELSE LET c == SkipSpace(s, k.next)
             IN  IF c > Len(s) \/ s[c] # ":" THEN UnmarshalFail
                 ELSE LET v == ParseValue(s, SkipSpace(s, c + 1))
                      IN  IF ~v.ok THEN UnmarshalFail
                          ELSE LET e == SkipSpace(s, v.next)
                                   m == (k.val.s :> v.val) @@ acc
                               IN  IF e > Len(s) THEN UnmarshalFail
                                   ELSE IF s[e] = ","
                                        THEN ParseMembers(s, e + 1, m)
                                   ELSE IF s[e] = "}" /\ SkipSpace(s, e + 1) > Len(s)
                                        THEN [ok |-> TRUE, args |-> m]
                                   ELSE UnmarshalFail

\* a decoder that takes every text for an empty object
UnmarshalLenient(s) == [ok |-> TRUE, args |-> EmptyMap]

\* json.Unmarshal of text s into a map[string]interface{}, for objects whose
\* values are strings without escapes and non-negative integers
Unmarshal(s) ==
    LET i == SkipSpace(s, 1)
    IN  IF i > Len(s) \/ s[i] # "{" THEN UnmarshalFail
        ELSE LET j == SkipSpace(s, i + 1)
             IN  IF j > Len(s) THEN UnmarshalFail
                 ELSE IF s[j] = "}"
                      THEN IF SkipSpace(s, j + 1) > Len(s)
                           THEN [ok |-> TRUE, args |-> EmptyMap]
                           ELSE UnmarshalFail
                 ELSE ParseMembers(s, j, EmptyMap)

\* stringValue(args[key]): "" for a missing key, the string itself, or the
\* %v rendering of a number
stringValue(args, key) ==
    IF key \notin DOMAIN args THEN <<>>
    ELSE IF args[key].kind = "str" THEN args[key].s
    ELSE FormatNat(args[key].n)

(***************************************************************************)
(* The inputs of the model.                                                *)
(***************************************************************************)
Trips == {"t1", "t2"}

\* the keys of the arguments of a function call
kName == <<"n", "a", "m", "e">>
kRecordId == <<"r", "e", "c", "o", "r", "d", "_", "i", "d">>
kDescription == <<"d", "e", "s", "c", "r", "i", "p", "t", "i", "o", "n">>
kAddress == <<"a", "d", "d", "r", "e", "s", "s">>
kNotes == <<"n", "o", "t", "e", "s">>
kStartTime == <<"s", "t", "a", "r", "t", "_", "t", "i", "m", "e">>
kEndTime == <<"e", "n", "d", "_", "t", "i", "m", "e">>
kCostValue == <<"c", "o", "s", "t", "_", "v", "a", "l", "u", "e">>
kCostCurrency == <<"c", "o", "s", "t", "_", "c", "u", "r", "r", "e", "n", "c", "y">>
kType == <<"t", "y", "p", "e">>
kConfirmation == <<"c", "o", "n", "f", "i", "r", "m", "a", "t", "i", "o", "n">>
kProvider == <<"p", "r", "o", "v", "i", "d", "e", "r">>
kOrigin == <<"o", "r", "i", "g", "i", "n">>
kDestination == <<"d", "e", "s", "t", "i", "n", "a", "t", "i", "o", "n">>
kDepartureTime == <<"d", "e", "p", "a", "r", "t", "u", "r", "e", "_", "t", "i", "m", "e">>
kArrivalTime == <<"a", "r", "r", "i", "v", "a", "l", "_", "t", "i", "m", "e">>

Quoted(s) == <<"\"">> \o s \o <<"\"">>
Member(k, v) == Quoted(k) \o <<":">> \o v
Object(ms) == <<"{">> \o ms \o <<"}">>

TextCreate == Object(Member(kName, Quoted(<<"A">>)))
TextEmpty == <<" ", "{", "}", "\n">>

\* the function calls the provider may stream in a turn: item id -> call
ProviderCalls ==
    [ fc_1 |-> [name |-> "create_activity", text |-> TextCreate],
      fc_2 |-> [name |-> "summarize_trip", text |-> TextEmpty] ]

ItemIDs == DOMAIN ProviderCalls

TextDeltas == {"", "Hi", "ok"}
ErrorMessages == {"", "overloaded"}
\* the time that passes between two reads of the clock in one call
Lags == {0, 1}

(***************************************************************************)
(* State.                                                                  *)
(***************************************************************************)
VARIABLES
    \* proposalStore.items: proposal id -> proposal
    items,
    \* time.Now(), in minutes
    clock,
    \* the number of proposal ids uuid.NewString() has handed out
    issued,
    \* the streaming turn: where TripAssistantStream stands
    spc,
    \* tripRecord.Id of the streaming request
    streamTrip,
    \* callBuffer of streamResponsesToClient
    callBuffer,
    \* proposalIssued and completed of streamResponsesToClient
    proposalIssued,
    completed,
    \* the events written to the client, in order
    sent,
    \* history: the text of every response.output_text.delta event processed
    textIn,
    \* the provider: how many characters of each call's arguments it has streamed
    provPos,
    \* the record store: record id -> record
    records,
    \* the number of records created
    created,
    \* the decision requests: worker -> the request it handles
    req,
    \* history: proposal id -> the number of mutations applied for it
    applied,
    \* history: proposal id -> the number of decisions answered with status 200
    processed,
    \* the answer the last step wrote to its client, if it wrote one
    response,
    \* the chat request: the handler that took it, what it read and its answer
    chat,
    \* proposalStore's sync.RWMutex: the goroutine that holds the write lock
    \* (0 for none) and the goroutines that hold a read lock
    mutex,
    \* the calls of the store functions: goroutine -> the call it is in
    calls,
    \* history: proposal id -> the number of pops that returned the proposal
    popped,
    \* the function call fed to a tool call buffer: the text of its arguments,
    \* how much of it was sent, and in how many fragments
    feed,
    \* the streaming request whose prompt is built: req.Messages and the
    \* input buildResponsesInput returns for them
    prompt,
    \* the rows of the three child collections, in the order the database
    \* returns them, and the trip context built from them
    snapshot,
    \* the TripAssistant component of the web client: its pending proposal,
    \* the countdown, the decision requests in flight
    client,
    \* the read loop of streamAssistantReply: the bytes read, the buffer
    \* carried forward and the events parsed
    reader

streamVars == <<spc, streamTrip, callBuffer, proposalIssued, completed, sent,
                textIn, provPos>>
storeVars == <<items, clock, issued>>
decisionVars == <<records, created, req, applied, processed, response>>
vars == <<items, clock, issued, spc, streamTrip, callBuffer, proposalIssued,
          completed, sent, textIn, provPos, records, created, req, applied,
          processed, response, chat, mutex, calls, popped, feed, prompt,
          snapshot, client, reader>>
clientVars == <<client, reader>>
lockVars == <<mutex, calls, popped>>

(***************************************************************************)
(* The proposal store.                                                     *)
(***************************************************************************)
\* a store that keeps nothing
storeNothing(store, proposal) == store

\* storeAssistantProposal
storeAssistantProposal(store, proposal) ==
    (proposal.ID :> proposal) @@ store

\* a pop that removes nothing
popNothing(store, id) == store

\* popAssistantProposal: the store without id
popAssistantProposal(store, id) ==
    [k \in DOMAIN store \ {id} |-> store[k]]

\* getAssistantProposal: whether id is in the store
hasAssistantProposal(store, id) == id \in DOMAIN store

\* a proposal that never expires
expiredNever(proposal, now) == FALSE

\* a proposal that expires a minute late
expiredLate(proposal, now) == now > proposal.ExpiresAt + 1

\* assistantProposal.expired
expired(proposal, now) == now > proposal.ExpiresAt

(***************************************************************************)
(* functionCallBuffer.                                                     *)
(***************************************************************************)
NewCallBuffer == [active |-> FALSE, name |-> "", itemID |-> "", builder |-> <<>>]

\* a buffer that keeps the text of the call before when a call starts
handleOutputItemAddedKeepsText(b, itemType, name, id) ==
    IF itemType # "function_call" THEN b
    ELSE [active |-> TRUE, name |-> name, itemID |-> id, builder |-> b.builder]

\* handleOutputItemAdded
handleOutputItemAdded(b, itemType, name, id) ==
    IF itemType # "function_call" THEN b
    ELSE [active |-> TRUE, name |-> name, itemID |-> id, builder |-> <<>>]

\* a buffer that appends the delta of any item
handleArgumentsDeltaAnyItem(b, itemID, delta) ==
    IF ~b.active THEN b
    ELSE [b EXCEPT !.builder = b.builder \o delta]

\* a buffer that keeps the last fragment only
handleArgumentsDeltaLastOnly(b, itemID, delta) ==
    IF ~b.active THEN b
    ELSE IF itemID # "" /\ itemID # b.itemID THEN b
    ELSE [b EXCEPT !.builder = delta]

\* handleArgumentsDelta
handleArgumentsDelta(b, itemID, delta) ==
    IF ~b.active THEN b
    ELSE IF itemID # "" /\ itemID # b.itemID THEN b
    ELSE [b EXCEPT !.builder = b.builder \o delta]

\* the events written to the client
DeltaEvent(text) ==
    [type |-> "delta", text |-> text, id |-> 0, tool |-> "", arguments |-> EmptyMap,
     expiresAt |-> 0]
DoneEvent ==
    [type |-> "done", text |-> "", id |-> 0, tool |-> "", arguments |-> EmptyMap,
     expiresAt |-> 0]
ErrorEvent(message) ==
    [type |-> "error", text |-> message, id |-> 0, tool |-> "",
     arguments |-> EmptyMap, expiresAt |-> 0]
ProposalEvent(p) ==
    [type |-> "proposal", text |-> "", id |-> p.ID, tool |-> p.Tool,
     arguments |-> p.Arguments, expiresAt |-> p.ExpiresAt]

\* the proposal finalizeProposal builds
\* the clock is read twice: for CreatedAt, and again for ExpiresAt
NewProposal(id, tripID, name, args, now, later) ==
    [ID |-> id, TripID |-> tripID, Tool |-> name, Arguments |-> args,
     CreatedAt |-> now, ExpiresAt |-> later + proposalTTL]

\* a finalizeProposal that gives the call up when its text does not decode
finalizeProposalGivesUp(b, itemID, tripID, store, id, now, later) ==
    LET none == [ok |-> FALSE, proposal |-> NewProposal(0, "", "", EmptyMap, 0, 0),
                 buffer |-> b, store |-> store]
        argsJSON == TrimSpace(b.builder)
        parsed == Unmarshal(argsJSON)
        proposal == NewProposal(id, tripID, b.name, parsed.args, now, later)
    IN  IF ~b.active THEN none
        ELSE IF itemID # "" /\ itemID # b.itemID THEN none
        ELSE IF argsJSON = <<>> THEN none
        ELSE IF ~parsed.ok
             THEN [none EXCEPT !.buffer = [b EXCEPT !.active = FALSE,
                                                    !.builder = <<>>, !.itemID = ""]]
        ELSE [ok |-> TRUE, proposal |-> proposal,
              buffer |-> [b EXCEPT !.active = FALSE, !.builder = <<>>, !.itemID = ""],
              store |-> storeAssistantProposal(store, proposal)]

\* finalizeProposal: whether a proposal is produced, the proposal, and the
\* buffer and the store afterwards
finalizeProposal(b, itemID, tripID, store, id, now, later) ==
    LET none == [ok |-> FALSE, proposal |-> NewProposal(0, "", "", EmptyMap, 0, 0),
                 buffer |-> b, store |-> store]
        argsJSON == TrimSpace(b.builder)
        parsed == Unmarshal(argsJSON)
        proposal == NewProposal(id, tripID, b.name, parsed.args, now, later)
    IN  IF ~b.active THEN none
        ELSE IF itemID # "" /\ itemID # b.itemID THEN none
        ELSE IF argsJSON = <<>> THEN none
        ELSE IF ~parsed.ok THEN none
        ELSE [ok |-> TRUE, proposal |-> proposal,
              buffer |-> [b EXCEPT !.active = FALSE, !.builder = <<>>, !.itemID = ""],
              store |-> storeAssistantProposal(store, proposal)]

(***************************************************************************)
(* The record store and the mutations of an approved proposal.             *)
(* A record is its collection, its trip reference, its text fields and its *)
(* cost. The function calls of the model carry no "destination" object, so *)
(* buildActivityMetadata is empty and the metadata field is never set.     *)
(***************************************************************************)
FieldsOf(collection) ==
    CASE collection = "activities" ->
            {"name", "description", "address", "notes", "startDate", "endDate"}
      [] collection = "lodgings" ->
            {"name", "type", "address", "confirmationCode", "startDate", "endDate",
             "notes"}
      [] collection = "transportations" ->
            {"type", "provider", "origin", "destination", "notes", "departureTime",
             "arrivalTime"}

NoCost == [value |-> 0, currency |-> <<>>]

\* core.NewRecord(collection) with its trip set
NewRecord(collection, tripID) ==
    [collection |-> collection, trip |-> tripID,
     fields |-> [f \in FieldsOf(collection) |-> <<>>], cost |-> NoCost]

\* floatValue(args[key])
floatValue(args, key) ==
    IF key \notin DOMAIN args THEN 0
    ELSE IF args[key].kind = "num" THEN args[key].n
    ELSE IF args[key].s # <<>> /\ \A i \in 1..Len(args[key].s) : args[key].s[i] \in Digits
         THEN ParseNat(args[key].s)
    ELSE 0

\* record.Set(field, stringValue(args[key])) for every <<field, key>> of sets
SetFields(record, args, sets) ==
    [record EXCEPT !.fields =
        [f \in DOMAIN record.fields |->
            IF \E p \in sets : p[1] = f
            THEN stringValue(args, (CHOOSE p \in sets : p[1] = f)[2])
            ELSE record.fields[f]]]

\* a record.Set(field, v) without the test of v
SetFieldsAlways(record, args, sets) ==
    [record EXCEPT !.fields =
        [f \in DOMAIN record.fields |->
            IF \E p \in sets : p[1] = f
            THEN stringValue(args, (CHOOSE p \in sets : p[1] = f)[2])
            ELSE record.fields[f]]]

\* if v := stringValue(args[key]); v != "" { record.Set(field, v) }
SetFieldsIfGiven(record, args, sets) ==
    [record EXCEPT !.fields =
        [f \in DOMAIN record.fields |->
            IF \E p \in sets : p[1] = f /\ stringValue(args, p[2]) # <<>>
            THEN stringValue(args, (CHOOSE p \in sets : p[1] = f)[2])
            ELSE record.fields[f]]]

\* the cost part of saveActivityProposal
SetCostOnCreate(record, args) ==
    IF floatValue(args, kCostValue) > 0 /\ stringValue(args, kCostCurrency) # <<>>
    THEN [record EXCEPT !.cost = [value |-> floatValue(args, kCostValue),
                                  currency |-> stringValue(args, kCostCurrency)]]
    ELSE record

\* an applyCostUpdate that leaves the cost where the arguments give no valid one
applyCostUpdateKeeps(record, args) ==
    IF floatValue(args, kCostValue) > 0 /\ stringValue(args, kCostCurrency) # <<>>
    THEN [record EXCEPT !.cost = [value |-> floatValue(args, kCostValue),
                                  currency |-> stringValue(args, kCostCurrency)]]
    ELSE record

\* applyCostUpdate
applyCostUpdate(record, args) ==
    IF kCostValue \notin DOMAIN args /\ kCostCurrency \notin DOMAIN args THEN record
    ELSE IF floatValue(args, kCostValue) > 0 /\ stringValue(args, kCostCurrency) # <<>>
         THEN [record EXCEPT !.cost = [value |-> floatValue(args, kCostValue),
                                       currency |-> stringValue(args, kCostCurrency)]]
    ELSE [record EXCEPT !.cost = NoCost]

\* the result of a mutation that fails
Failed(recs) == [ok |-> FALSE, records |-> recs, op |-> "none", collection |-> "",
                 record |-> <<>>]

\* app.Save(record) of a new or changed record, under id
Saved(recs, op, id, record) ==
    [ok |-> TRUE, records |-> (id :> record) @@ recs, op |-> op,
     collection |-> record.collection, record |-> id]

\* app.Delete(record)
Deleted(recs, id) ==
    [ok |-> TRUE, records |-> [k \in DOMAIN recs \ {id} |-> recs[k]], op |-> "delete",
     collection |-> recs[id].collection, record |-> id]

\* a lookup of the record that does not compare its trip
ensureRecordExists(recs, collection, recordID, tripID) ==
    /\ recordID # <<>>
    /\ recordID \in DOMAIN recs
    /\ recs[recordID].collection = collection

\* ensureTripRecord: whether the record may be changed by a request of tripID
ensureTripRecord(recs, collection, recordID, tripID) ==
    /\ recordID # <<>>
    /\ recordID \in DOMAIN recs
    /\ recs[recordID].collection = collection
    /\ recs[recordID].trip = tripID

\* saveActivityProposal
saveActivityProposal(recs, newID, tripID, args) ==
    Saved(recs, "create", newID,
          SetCostOnCreate(
            SetFieldsIfGiven(
              SetFields(NewRecord("activities", tripID), args,
                        { <<"name", kName>>, <<"description", kDescription>>,
                          <<"address", kAddress>>, <<"notes", kNotes>> }),
              args, { <<"startDate", kStartTime>>, <<"endDate", kEndTime>> }),
            args))

\* saveLodgingProposal
saveLodgingProposal(recs, newID, tripID, args) ==
    Saved(recs, "create", newID,
          SetFieldsIfGiven(
            SetFields(NewRecord("lodgings", tripID), args,
                      { <<"name", kName>>, <<"type", kType>>, <<"address", kAddress>>,
                        <<"confirmationCode", kConfirmation>> }),
            args, { <<"startDate", kStartTime>>, <<"endDate", kEndTime>> }))

\* saveTransportationProposal
saveTransportationProposal(recs, newID, tripID, args) ==
    Saved(recs, "create", newID,
          SetFieldsIfGiven(
            SetFields(NewRecord("transportations", tripID), args,
                      { <<"type", kType>>, <<"provider", kProvider>>,
                        <<"origin", kOrigin>>, <<"destination", kDestination>>,
                        <<"notes", kNotes>> }),
            args, { <<"departureTime", kDepartureTime>>,
                    <<"arrivalTime", kArrivalTime>> }))

\* updateActivityProposal
updateActivityProposal(recs, tripID, args) ==
    LET id == stringValue(args, kRecordId)
    IN  IF ~ensureTripRecord(recs, "activities", id, tripID) THEN Failed(recs)
        ELSE Saved(recs, "update", id,
                   applyCostUpdate(
                     SetFieldsIfGiven(recs[id], args,
                        { <<"name", kName>>, <<"description", kDescription>>,
                          <<"address", kAddress>>, <<"notes", kNotes>>,
                          <<"startDate", kStartTime>>, <<"endDate", kEndTime>> }),
                     args))

\* updateLodgingProposal
updateLodgingProposal(recs, tripID, args) ==
    LET id == stringValue(args, kRecordId)
    IN  IF ~ensureTripRecord(recs, "lodgings", id, tripID) THEN Failed(recs)
        ELSE Saved(recs, "update", id,
                   SetFieldsIfGiven(recs[id], args,
                      { <<"name", kName>>, <<"type", kType>>, <<"address", kAddress>>,
                        <<"startDate", kStartTime>>, <<"endDate", kEndTime>>,
                        <<"confirmationCode", kConfirmation>>, <<"notes", kNotes>> }))

\* updateTransportationProposal
updateTransportationProposal(recs, tripID, args) ==
    LET id == stringValue(args, kRecordId)
    IN  IF ~ensureTripRecord(recs, "transportations", id, tripID) THEN Failed(recs)
        ELSE Saved(recs, "update", id,
                   SetFieldsIfGiven(recs[id], args,
                      { <<"type", kType>>, <<"provider", kProvider>>,
                        <<"origin", kOrigin>>, <<"destination", kDestination>>,
                        <<"departureTime", kDepartureTime>>,
                        <<"arrivalTime", kArrivalTime>>, <<"notes", kNotes>> }))

\* deleteActivityProposal, deleteLodgingProposal, deleteTransportationProposal
deleteProposal(recs, collection, tripID, args) ==
    LET id == stringValue(args, kRecordId)
    IN  IF ~ensureTripRecord(recs, collection, id, tripID) THEN Failed(recs)
        ELSE Deleted(recs, id)

\* applyAssistantProposal, when the record store accepts the write
applyAssistantProposal(recs, newID, tripID, proposal) ==
    CASE proposal.Tool = "create_activity" ->
            saveActivityProposal(recs, newID, tripID, proposal.Arguments)
      [] proposal.Tool = "update_activity" ->
            updateActivityProposal(recs, tripID, proposal.Arguments)
      [] proposal.Tool = "delete_activity" ->
            deleteProposal(recs, "activities", tripID, proposal.Arguments)
      [] proposal.Tool = "create_lodging" ->
            saveLodgingProposal(recs, newID, tripID, proposal.Arguments)
      [] proposal.Tool = "update_lodging" ->
            updateLodgingProposal(recs, tripID, proposal.Arguments)
      [] proposal.Tool = "delete_lodging" ->
            deleteProposal(recs, "lodgings", tripID, proposal.Arguments)
      [] proposal.Tool = "create_transportation" ->
            saveTransportationProposal(recs, newID, tripID, proposal.Arguments)
      [] proposal.Tool = "update_transportation" ->
            updateTransportationProposal(recs, tripID, proposal.Arguments)
      [] proposal.Tool = "delete_transportation" ->
            deleteProposal(recs, "transportations", tripID, proposal.Arguments)
      [] OTHER -> Failed(recs)

(***************************************************************************)
(* The chat handlers up to the provider call: TripAssistant,               *)
(* TripAssistantStream and ChatAboutTripItinerary.                         *)
(***************************************************************************)
Handlers == {"TripAssistant", "TripAssistantStream", "ChatAboutTripItinerary"}

\* os.Getenv("OPENAI_API_KEY"): unset, blank, set
APIKeys == {<<>>, <<" ">>, <<"s", "k">>}

\* e.Get("trip") is nil
NoTrip == ""

Message(role, content) == [role |-> role, content |-> content]

\* the message lists of the request bodies
MessageLists == {<<>>, <<Message("user", <<"h", "i">>)>>}

\* the chat request bodies: one that does not decode, and the decodable ones
ChatBodies ==
    {[bodyOK |-> FALSE, messages |-> <<>>]}
    \cup {[bodyOK |-> TRUE, messages |-> ms] : ms \in MessageLists}

\* what the handler's collaborators do for one request: the context build,
\* the provider call of the non-streaming handlers, http.Flusher support
Collaborators == [context : BOOLEAN, provider : BOOLEAN, flusher : BOOLEAN]

maxAiMessages == 12

LastN(s, n) == IF Len(s) > n THEN SubSeq(s, Len(s) - n + 1, Len(s)) ELSE s

sanitizeMessages(messages) ==
    LET kept == LastN(messages, maxAiMessages)
        cleaned == [i \in 1..Len(kept) |->
                      Message(IF kept[i].role = "assistant" THEN "assistant" ELSE "user",
                              TrimSpace(kept[i].content))]
    IN  SelectSeq(cleaned, LAMBDA m : m.content # <<>>)

\* how far a handler went and what it answered; status "" with streams set
\* is the hand-over to streamResponsesToClient
Outcome(status, error, bodyRead, contextBuilt, providerCalled, streams) ==
    [status |-> status, error |-> error, bodyRead |-> bodyRead,
     contextBuilt |-> contextBuilt, providerCalled |-> providerCalled,
     streams |-> streams]

KeyMissing == <<"ServiceUnavailable", "OPENAI_API_KEY is not configured on the server">>
LegacyKeyMissing == <<"ServiceUnavailable", "OpenAI integration is not configured.">>

TripAssistant(apiKey, body, trip, env) ==
    IF TrimSpace(apiKey) = <<>>
    THEN Outcome(KeyMissing[1], KeyMissing[2], FALSE, FALSE, FALSE, FALSE)
    ELSE IF ~body.bodyOK
    THEN Outcome("BadRequest", "invalid request body", TRUE, FALSE, FALSE, FALSE)
    ELSE IF Len(body.messages) = 0
    THEN Outcome("BadRequest", "at least one message is required", TRUE, FALSE, FALSE, FALSE)
    ELSE IF trip = NoTrip
    THEN Outcome("BadRequest", "trip context is missing", TRUE, FALSE, FALSE, FALSE)
    ELSE IF ~env.context
    THEN Outcome("InternalError", "unable to load the latest trip context", TRUE, TRUE, FALSE, FALSE)
    ELSE IF ~env.provider
    THEN Outcome("BadGateway", "assistant request failed: ...", TRUE, TRUE, TRUE, FALSE)
    ELSE Outcome("OK", "", TRUE, TRUE, TRUE, FALSE)

\* TripAssistantStream without the check of the message list
TripAssistantStreamAnyMessages(apiKey, body, trip, env) ==
    IF TrimSpace(apiKey) = <<>>
    THEN Outcome(KeyMissing[1], KeyMissing[2], FALSE, FALSE, FALSE, FALSE)
    ELSE IF ~body.bodyOK
    THEN Outcome("BadRequest", "invalid request body", TRUE, FALSE, FALSE, FALSE)
    ELSE IF trip = NoTrip
    THEN Outcome("BadRequest", "trip context is missing", TRUE, FALSE, FALSE, FALSE)
    ELSE IF ~env.context
    THEN Outcome("InternalError", "unable to load the latest trip context", TRUE, TRUE, FALSE, FALSE)
    ELSE IF ~env.flusher
    THEN Outcome("InternalError", "streaming is not supported on this server", TRUE, TRUE, FALSE, FALSE)
    ELSE Outcome("", "", TRUE, TRUE, FALSE, TRUE)

TripAssistantStream(apiKey, body, trip, env) ==
    IF TrimSpace(apiKey) = <<>>
    THEN Outcome(KeyMissing[1], KeyMissing[2], FALSE, FALSE, FALSE, FALSE)
    ELSE IF ~body.bodyOK
    THEN Outcome("BadRequest", "invalid request body", TRUE, FALSE, FALSE, FALSE)
    ELSE IF Len(body.messages) = 0
    THEN Outcome("BadRequest", "at least one message is required", TRUE, FALSE, FALSE, FALSE)
    ELSE IF trip = NoTrip
    THEN Outcome("BadRequest", "trip context is missing", TRUE, FALSE, FALSE, FALSE)
    ELSE IF ~env.context
    THEN Outcome("InternalError", "unable to load the latest trip context", TRUE, TRUE, FALSE, FALSE)
    ELSE IF ~env.flusher
    THEN Outcome("InternalError", "streaming is not supported on this server", TRUE, TRUE, FALSE, FALSE)
    ELSE Outcome("", "", TRUE, TRUE, FALSE, TRUE)

\* the key is compared as read, without strings.TrimSpace; an error of
\* buildTripContext is returned to the router as it is
ChatAboutTripItinerary(apiKey, body, trip, env) ==
    IF apiKey = <<>>
    THEN Outcome(LegacyKeyMissing[1], LegacyKeyMissing[2], FALSE, FALSE, FALSE, FALSE)
    ELSE IF ~body.bodyOK
    THEN Outcome("BadRequest", "invalid chat payload", TRUE, FALSE, FALSE, FALSE)
    ELSE IF Len(sanitizeMessages(body.messages)) = 0
    THEN Outcome("BadRequest", "at least one user message is required", TRUE, FALSE, FALSE, FALSE)
    ELSE IF ~env.context
    THEN Outcome("Error", "", TRUE, TRUE, FALSE, FALSE)
    ELSE IF ~env.provider
    THEN Outcome("BadGateway", "OpenAI request failed", TRUE, TRUE, TRUE, FALSE)
    ELSE Outcome("OK", "", TRUE, TRUE, TRUE, FALSE)

NoChat ==
    [pc |-> "idle", handler |-> "", apiKey |-> <<>>, bodyOK |-> FALSE,
     messages |-> <<>>, trip |-> NoTrip, status |-> "", error |-> "",
     bodyRead |-> FALSE, contextBuilt |-> FALSE, providerCalled |-> FALSE]

InitChat == chat = NoChat

Answered(handler, apiKey, body, trip, o) ==
    [pc |-> IF o.streams THEN "stream" ELSE "done", handler |-> handler,
     apiKey |-> apiKey, bodyOK |-> body.bodyOK, messages |-> body.messages,
     trip |-> trip, status |-> o.status, error |-> o.error,
     bodyRead |-> o.bodyRead, contextBuilt |-> o.contextBuilt,
     providerCalled |-> o.providerCalled]

\* one chat request, from the read of the key to the answer or, for the
\* streaming handler, to the response headers
ChatRequest(handler, apiKey, body, trip, env) ==
    /\ chat.pc = "idle"
    /\ handler = "ChatAboutTripItinerary" => trip # NoTrip
    /\ chat' = Answered(handler, apiKey, body, trip,
                 CASE handler = "TripAssistant" -> TripAssistant(apiKey, body, trip, env)
                   [] handler = "TripAssistantStream" -> TripAssistantStream(apiKey, body, trip, env)
                   [] OTHER -> ChatAboutTripItinerary(apiKey, body, trip, env))
    /\ UNCHANGED streamVars
    /\ UNCHANGED storeVars
    /\ UNCHANGED decisionVars
    /\ UNCHANGED lockVars
    /\ UNCHANGED feed
    /\ UNCHANGED prompt
    /\ UNCHANGED snapshot
    /\ UNCHANGED clientVars

(***************************************************************************)
(* One streaming turn: TripAssistantStream from the point where the        *)
(* response headers are set, and streamResponsesToClient.                  *)
(***************************************************************************)
Min(a, b) == IF a < b THEN a ELSE b

InitStore ==
    /\ items = EmptyMap
    /\ clock = 0
    /\ issued = 0

InitStream ==
    /\ spc = "start"
    /\ streamTrip = ""
    /\ callBuffer = NewCallBuffer
    /\ proposalIssued = FALSE
    /\ completed = FALSE
    /\ sent = <<>>
    /\ textIn = <<>>
    /\ provPos = [c \in ItemIDs |-> 0]

\* a streaming request of trip: client.Do succeeds with a status below 400
\* and the scanner starts
ProviderConnect(trip) ==
    /\ spc = "start"
    /\ chat.pc = "stream"
    /\ chat.trip = trip
    /\ streamTrip' = trip
    /\ spc' = "scan"
    /\ UNCHANGED <<callBuffer, proposalIssued, completed, sent, textIn, provPos>>
    /\ UNCHANGED storeVars
    /\ UNCHANGED decisionVars
    /\ chat' = [chat EXCEPT !.providerCalled = TRUE]
    /\ UNCHANGED lockVars
    /\ UNCHANGED feed
    /\ UNCHANGED prompt
    /\ UNCHANGED snapshot
    /\ UNCHANGED clientVars

\* the error TripAssistantStream sends when streamResponsesToClient fails
HandlerError == ErrorEvent("assistant request failed")

\* client.Do fails or the status is 400 or more: streamResponsesToClient
\* returns the error and TripAssistantStream sends the error event
ProviderRefuse(trip) ==
    /\ spc = "start"
    /\ chat.pc = "stream"
    /\ chat.trip = trip
    /\ streamTrip' = trip
    /\ sent' = Append(sent, HandlerError)
    /\ spc' = "closed"
    /\ UNCHANGED <<callBuffer, proposalIssued, completed, textIn, provPos>>
    /\ UNCHANGED storeVars
    /\ UNCHANGED decisionVars
    /\ chat' = [chat EXCEPT !.providerCalled = TRUE]
    /\ UNCHANGED lockVars
    /\ UNCHANGED feed
    /\ UNCHANGED prompt
    /\ UNCHANGED snapshot
    /\ UNCHANGED clientVars

Scanning == spc = "scan"

\* the done and error events among the events out
Signals(out) == SelectSeq(out, LAMBDA e : e.type \in {"done", "error"})

\* whether the provider may still send a text, completed or error event
MoreEvents == Len(textIn) + Len(Signals(sent)) < MaxEvents

\* a line that is blank, is no data line, is no JSON or has another type
IgnoredLine ==
    /\ Scanning
    /\ UNCHANGED streamVars
    /\ UNCHANGED storeVars
    /\ UNCHANGED decisionVars
    /\ UNCHANGED chat
    /\ UNCHANGED lockVars
    /\ UNCHANGED feed
    /\ UNCHANGED prompt
    /\ UNCHANGED snapshot
    /\ UNCHANGED clientVars

\* case "response.output_item.added"
OutputItemAdded(itemType, id) ==
    /\ Scanning
    /\ callBuffer' = handleOutputItemAdded(callBuffer, itemType, ProviderCalls[id].name, id)
    /\ provPos' = IF itemType = "function_call" THEN [provPos EXCEPT ![id] = 0] ELSE provPos
    /\ UNCHANGED <<spc, streamTrip, proposalIssued, completed, sent, textIn>>
    /\ UNCHANGED storeVars
    /\ UNCHANGED decisionVars
    /\ UNCHANGED chat
    /\ UNCHANGED lockVars
    /\ UNCHANGED feed
    /\ UNCHANGED prompt
    /\ UNCHANGED snapshot
    /\ UNCHANGED clientVars

\* case "response.function_call_arguments.delta": the next k characters of
\* the arguments of call id (all that is left if fewer), in an event that
\* names eventItemID
ArgumentsDelta(id, eventItemID, k) ==
    /\ Scanning
    /\ LET text == ProviderCalls[id].text
           to == Min(provPos[id] + k, Len(text))
           delta == SubSeq(text, provPos[id] + 1, to)
       IN  /\ callBuffer' = handleArgumentsDelta(callBuffer, eventItemID, delta)
           /\ provPos' = [provPos EXCEPT ![id] = to]
    /\ UNCHANGED <<spc, streamTrip, proposalIssued, completed, sent, textIn>>
    /\ UNCHANGED storeVars
    /\ UNCHANGED decisionVars
    /\ UNCHANGED chat
    /\ UNCHANGED lockVars
    /\ UNCHANGED feed
    /\ UNCHANGED prompt
    /\ UNCHANGED snapshot
    /\ UNCHANGED clientVars

\* a relay that sends the proposal and keeps reading the provider stream
AfterProposalKeepReading(payload) ==
    /\ proposalIssued' = TRUE
    /\ sent' = Append(sent, payload)
    /\ spc' = spc

\* what the loop does with a proposal it got from finalizeProposal
AfterProposal(payload) ==
    /\ proposalIssued' = TRUE
    /\ sent' = Append(sent, payload)
    /\ spc' = "closed"

\* case "response.function_call_arguments.done"
\* lag is the time that passes between the two reads of the clock in
\* finalizeProposal
ArgumentsDone(eventItemID, lag) ==
    /\ Scanning
    /\ IF proposalIssued
       THEN /\ lag = 0
            /\ UNCHANGED <<spc, callBuffer, proposalIssued, sent, items, issued, clock>>
       ELSE LET r == finalizeProposal(callBuffer, eventItemID, streamTrip, items,
                                      issued + 1, clock, clock + lag)
            IN  IF r.ok
                THEN /\ callBuffer' = r.buffer
                     /\ items' = r.store
                     /\ issued' = issued + 1
                     /\ clock' = clock + lag
                     /\ AfterProposal(ProposalEvent(r.proposal))
                ELSE /\ lag = 0
                     /\ callBuffer' = r.buffer
                     /\ items' = r.store
                     /\ UNCHANGED <<spc, proposalIssued, sent, issued, clock>>
    /\ UNCHANGED <<streamTrip, completed, textIn, provPos>>
    /\ UNCHANGED decisionVars
    /\ UNCHANGED chat
    /\ UNCHANGED lockVars
    /\ UNCHANGED feed
    /\ UNCHANGED prompt
    /\ UNCHANGED snapshot
    /\ UNCHANGED clientVars

\* a relay that forwards every text delta, the empty ones too
ForwardDeltaUnfiltered(out, delta) == Append(out, DeltaEvent(delta))

\* what the loop sends for a text delta
ForwardDelta(out, delta) ==
    IF delta # "" THEN Append(out, DeltaEvent(delta)) ELSE out

\* case "response.output_text.delta"
OutputTextDelta(delta) ==
    /\ Scanning
    /\ MoreEvents
    /\ textIn' = Append(textIn, delta)
    /\ sent' = ForwardDelta(sent, delta)
    /\ UNCHANGED <<spc, streamTrip, callBuffer, proposalIssued, completed, provPos>>
    /\ UNCHANGED storeVars
    /\ UNCHANGED decisionVars
    /\ UNCHANGED chat
    /\ UNCHANGED lockVars
    /\ UNCHANGED feed
    /\ UNCHANGED prompt
    /\ UNCHANGED snapshot
    /\ UNCHANGED clientVars

\* case "response.completed"
ResponseCompleted ==
    /\ Scanning
    /\ MoreEvents
    /\ sent' = Append(sent, DoneEvent)
    /\ completed' = TRUE
    /\ UNCHANGED <<spc, streamTrip, callBuffer, proposalIssued, textIn, provPos>>
    /\ UNCHANGED storeVars
    /\ UNCHANGED decisionVars
    /\ UNCHANGED chat
    /\ UNCHANGED lockVars
    /\ UNCHANGED feed
    /\ UNCHANGED prompt
    /\ UNCHANGED snapshot
    /\ UNCHANGED clientVars

\* case "response.error"
ResponseError(message) ==
    /\ Scanning
    /\ MoreEvents
    /\ sent' = Append(sent, ErrorEvent(IF message = "" THEN "assistant request failed"
                                       ELSE message))
    /\ UNCHANGED <<spc, streamTrip, callBuffer, proposalIssued, completed, textIn,
                   provPos>>
    /\ UNCHANGED storeVars
    /\ UNCHANGED decisionVars
    /\ UNCHANGED chat
    /\ UNCHANGED lockVars
    /\ UNCHANGED feed
    /\ UNCHANGED prompt
    /\ UNCHANGED snapshot
    /\ UNCHANGED clientVars

\* a relay that asks the provider again when the stream ends
StreamEndReconnects ==
    /\ spc = "scan"
    /\ spc' = "start"
    /\ UNCHANGED <<streamTrip, callBuffer, proposalIssued, completed, sent, textIn,
                   provPos>>
    /\ UNCHANGED storeVars
    /\ UNCHANGED decisionVars
    /\ UNCHANGED chat
    /\ UNCHANGED lockVars
    /\ UNCHANGED feed
    /\ UNCHANGED prompt
    /\ UNCHANGED snapshot
    /\ UNCHANGED clientVars

\* the loop ends with "[DONE]" or the end of the body: the code after the loop
StreamEnd ==
    /\ spc = "scan"
    /\ sent' = IF ~completed /\ ~proposalIssued THEN Append(sent, DoneEvent) ELSE sent
    /\ spc' = "closed"
    /\ UNCHANGED <<streamTrip, callBuffer, proposalIssued, completed, textIn, provPos>>
    /\ UNCHANGED storeVars
    /\ UNCHANGED decisionVars
    /\ UNCHANGED chat
    /\ UNCHANGED lockVars
    /\ UNCHANGED feed
    /\ UNCHANGED prompt
    /\ UNCHANGED snapshot
    /\ UNCHANGED clientVars

\* an abort that commits the call buffered so far to the store
ScanFailCommits ==
    /\ spc = "scan"
    /\ sent' = Append(sent, HandlerError)
    /\ spc' = "closed"
    /\ items' = IF callBuffer.active
                THEN storeAssistantProposal(items,
                        NewProposal(issued + 1, streamTrip, callBuffer.name, EmptyMap, clock, clock))
                ELSE items
    /\ UNCHANGED <<streamTrip, callBuffer, proposalIssued, completed, textIn, provPos>>
    /\ UNCHANGED <<clock, issued>>
    /\ UNCHANGED decisionVars
    /\ UNCHANGED chat
    /\ UNCHANGED lockVars
    /\ UNCHANGED feed
    /\ UNCHANGED prompt
    /\ UNCHANGED snapshot
    /\ UNCHANGED clientVars

\* scanner.Err() is an error (a read error, or the request context is
\* cancelled): streamResponsesToClient returns it and TripAssistantStream
\* sends the error event
ScanFail ==
    /\ spc = "scan"
    /\ sent' = Append(sent, HandlerError)
    /\ spc' = "closed"
    /\ UNCHANGED <<streamTrip, callBuffer, proposalIssued, completed, textIn, provPos>>
    /\ UNCHANGED storeVars
    /\ UNCHANGED decisionVars
    /\ UNCHANGED chat
    /\ UNCHANGED lockVars
    /\ UNCHANGED feed
    /\ UNCHANGED prompt
    /\ UNCHANGED snapshot
    /\ UNCHANGED clientVars


(***************************************************************************)
(* Decision requests: AssistantProposalDecision, run by concurrent workers.*)
(***************************************************************************)
Workers == {1, 2}

\* the decision values of the requests
Decisions == {"approve", "DECLINE", "timeout", "later"}

\* strings.ToLower on the decision values
ToLower(d) == IF d = "DECLINE" THEN "decline" ELSE d

\* the proposal ids a request may name: the last one is never issued
ProposalIDs == 1..(MaxProposals + 1)

idA1 == <<"a", "1">>
idL1 == <<"l", "1">>
idX1 == <<"x", "1">>

\* the id of the n-th record created
NewRecordID(n) == <<"n">> \o FormatNat(n)

InitialRecords ==
    (idA1 :> [NewRecord("activities", "t1") EXCEPT !.fields["name"] = <<"A">>])
    @@ (idL1 :> [NewRecord("lodgings", "t1") EXCEPT !.fields["name"] = <<"H">>])
    @@ (idX1 :> [NewRecord("transportations", "t1") EXCEPT !.fields["type"] = <<"c", "a", "r">>])

JName(v) == Member(kName, Quoted(v))
JType(v) == Member(kType, Quoted(v))
JRecord(id) == Member(kRecordId, Quoted(id))

\* the function calls that end a streaming turn with a proposal
CallMenu ==
    { [name |-> "create_activity", text |-> Object(JName(<<"B">>))],
      [name |-> "create_lodging", text |-> Object(JName(<<"B">>))],
      [name |-> "create_transportation", text |-> Object(JType(<<"b", "u", "s">>))],
      [name |-> "update_activity",
       text |-> Object(JRecord(idA1) \o <<",">> \o JName(<<"B">>))],
      [name |-> "update_lodging",
       text |-> Object(JRecord(idL1) \o <<",">> \o JName(<<"B">>))],
      [name |-> "update_transportation",
       text |-> Object(JRecord(idX1) \o <<",">> \o JType(<<"b", "u", "s">>))],
      [name |-> "delete_activity", text |-> Object(JRecord(idA1))],
      [name |-> "delete_lodging", text |-> Object(JRecord(idL1))],
      [name |-> "delete_transportation", text |-> Object(JRecord(idX1))],
      [name |-> "delete_activity", text |-> Object(<<>>)],
      [name |-> "update_lodging", text |-> Object(JRecord(idA1))],
      [name |-> "summarize_trip", text |-> Object(<<>>)] }

\* the members of the cost arguments
JCostValue(n) == Member(kCostValue, n)
JCostCurrency(v) == Member(kCostCurrency, Quoted(v))

\* the function calls whose proposals create an activity with or without a
\* cost and update a record: the activity created first, with a name given
\* empty, another field, cost arguments of every kind; the activity, the
\* lodging and the transportation the trip starts with
UpdateMenu ==
    { [name |-> "create_activity",
       text |-> Object(JName(<<"B">>) \o <<",">> \o JCostValue(<<"5">>) \o <<",">>
                       \o JCostCurrency(<<"E">>))],
      [name |-> "create_activity",
       text |-> Object(JName(<<"C">>) \o <<",">> \o JCostValue(<<"5">>))],
      [name |-> "create_activity",
       text |-> Object(JCostValue(<<"0">>) \o <<",">> \o JCostCurrency(<<"E">>))],
      [name |-> "update_activity",
       text |-> Object(JRecord(NewRecordID(1)) \o <<",">> \o JName(<<>>))],
      [name |-> "update_activity",
       text |-> Object(JRecord(NewRecordID(1)) \o <<",">>
                       \o Member(kDescription, Quoted(<<"x">>)))],
      [name |-> "update_activity",
       text |-> Object(JRecord(NewRecordID(1)) \o <<",">> \o JCostCurrency(<<>>))],
      [name |-> "update_activity",
       text |-> Object(JRecord(NewRecordID(1)) \o <<",">> \o JCostValue(<<"7">>))],
      [name |-> "update_activity",
       text |-> Object(JRecord(NewRecordID(1)) \o <<",">> \o JCostValue(Quoted(<<"7">>))
                       \o <<",">> \o JCostCurrency(<<"U">>))],
      [name |-> "update_activity",
       text |-> Object(JRecord(idA1) \o <<",">> \o JName(<<"B">>) \o <<",">>
                       \o JCostValue(<<"7">>) \o <<",">> \o JCostCurrency(<<"U">>))],
      [name |-> "update_lodging",
       text |-> Object(JRecord(idL1) \o <<",">> \o JType(<<"x">>) \o <<",">>
                       \o JName(<<>>))],
      [name |-> "update_transportation",
       text |-> Object(JRecord(idX1) \o <<",">> \o Member(kOrigin, Quoted(<<"x">>)))] }

\* the calls of the menu that the concurrent requests decide on
RaceMenu == {c \in CallMenu : c.name \in {"create_activity", "delete_lodging"}}

\* the turns whose proposals are decided one request at a time: every call
\* for trip t1, which owns the records, and for trip t2 a create, and an
\* update and a delete of records of trip t1
ApplyMenu ==
    {[trip |-> "t1", call |-> c] : c \in CallMenu}
    \cup {[trip |-> "t2", call |-> c] :
            c \in {x \in CallMenu : x.name \in {"create_lodging", "update_activity",
                                                "delete_transportation"}}}

\* the decision requests: every decodable one, and one whose body does not
\* decode (the handler answers it before it reads anything else of it)
Requests ==
    [id : ProposalIDs, trip : Trips, decision : Decisions, bodyOK : {TRUE}]
    \cup {[id |-> 1, trip |-> "t1", decision |-> "", bodyOK |-> FALSE]}

\* the requests that run concurrently: a timeout is handled as a decline is
RaceRequests == {r \in Requests : r.decision # "timeout"}

NoProposal == NewProposal(0, "", "", EmptyMap, 0, 0)

Idle == [pc |-> "idle", id |-> 0, trip |-> "", decision |-> "", proposal |-> NoProposal]

\* response is the status of the answer sent in the last step, if any
NoResponse == ""

InitDecision ==
    /\ records = InitialRecords
    /\ created = 0
    /\ req = [w \in Workers |-> Idle]
    /\ applied = [id \in ProposalIDs |-> 0]
    /\ processed = [id \in ProposalIDs |-> 0]
    /\ response = NoResponse

\* a streaming turn of trip that ends with the proposal of call c, while
\* fewer than limit proposals were issued: finalizeProposal builds the
\* proposal and stores it
IssueProposalBelow(limit, trip, c, lag) ==
    /\ issued < limit
    /\ clock + lag <= MaxClock
    /\ LET r == finalizeProposal(handleArgumentsDelta(
                    handleOutputItemAdded(NewCallBuffer, "function_call", c.name, "fc_1"),
                    "fc_1", c.text),
                  "fc_1", trip, items, issued + 1, clock, clock + lag)
       IN  /\ r.ok
           /\ items' = r.store
    /\ issued' = issued + 1
    /\ clock' = clock + lag
    /\ response' = NoResponse
    /\ UNCHANGED streamVars
    /\ UNCHANGED chat
    /\ UNCHANGED lockVars
    /\ UNCHANGED feed
    /\ UNCHANGED prompt
    /\ UNCHANGED snapshot
    /\ UNCHANGED clientVars
    /\ UNCHANGED <<records, created, req, applied, processed>>

IssueProposal(trip, c, lag) == IssueProposalBelow(MaxProposals, trip, c, lag)

\* a clock whose tick removes the proposals that have expired
TickSweeps ==
    /\ issued > 0
    /\ clock < MaxClock
    /\ clock' = clock + 1
    /\ response' = NoResponse
    /\ items' = [id \in {i \in DOMAIN items : ~expired(items[i], clock + 1)} |->
                    items[id]]
    /\ UNCHANGED issued
    /\ UNCHANGED streamVars
    /\ UNCHANGED chat
    /\ UNCHANGED lockVars
    /\ UNCHANGED feed
    /\ UNCHANGED prompt
    /\ UNCHANGED snapshot
    /\ UNCHANGED clientVars
    /\ UNCHANGED <<records, created, req, applied, processed>>

\* time passes; the clock starts with the first proposal, as nothing before
\* it depends on the time
Tick ==
    /\ issued > 0
    /\ clock < MaxClock
    /\ clock' = clock + 1
    /\ response' = NoResponse
    /\ UNCHANGED <<items, issued>>
    /\ UNCHANGED streamVars
    /\ UNCHANGED chat
    /\ UNCHANGED lockVars
    /\ UNCHANGED feed
    /\ UNCHANGED prompt
    /\ UNCHANGED snapshot
    /\ UNCHANGED clientVars
    /\ UNCHANGED <<records, created, req, applied, processed>>

\* a new request goes to the first worker that is free
FirstFree(w) ==
    /\ req[w].pc = "idle"
    /\ \A v \in Workers : req[v].pc = "idle" => \neg (v < w)

\* a switch whose timeout case shares the approve case
SwitchTimeoutApplies(decision) ==
    CASE ToLower(decision) \in {"approve", "timeout"} -> "apply"
      [] ToLower(decision) = "decline" -> "pop"
      [] OTHER -> ""

\* a switch whose default case shares the approve case
SwitchUnknownApproves(decision) ==
    CASE ToLower(decision) = "approve" -> "apply"
      [] ToLower(decision) = "decline" -> "pop"
      [] ToLower(decision) = "timeout" -> "pop"
      [] OTHER -> "apply"

\* where the switch on the decision goes: "" for the default case
Switch(decision) ==
    CASE ToLower(decision) = "approve" -> "apply"
      [] ToLower(decision) = "decline" -> "pop"
      [] ToLower(decision) = "timeout" -> "pop"
      [] OTHER -> ""

\* the handler without its expiry check
RouteNoExpiryCheck(store, now, id, trip, bodyOK, decision) ==
    IF ~bodyOK THEN "BadRequest"
    ELSE IF ~hasAssistantProposal(store, id) THEN "Gone"
    ELSE IF store[id].TripID # trip THEN "Forbidden"
    ELSE IF Switch(decision) = "" THEN "BadRequest"
    ELSE Switch(decision)

\* the handler without its trip check
RouteNoTripCheck(store, now, id, trip, bodyOK, decision) ==
    IF ~bodyOK THEN "BadRequest"
    ELSE IF ~hasAssistantProposal(store, id) THEN "Gone"
    ELSE IF expired(store[id], now) THEN "popExpired"
    ELSE IF Switch(decision) = "" THEN "BadRequest"
    ELSE Switch(decision)

\* a handler that checks the expiry before the trip
RouteExpiryFirst(store, now, id, trip, bodyOK, decision) ==
    IF ~bodyOK THEN "BadRequest"
    ELSE IF ~hasAssistantProposal(store, id) THEN "Gone"
    ELSE IF expired(store[id], now) THEN "popExpired"
    ELSE IF store[id].TripID # trip THEN "Forbidden"
    ELSE IF Switch(decision) = "" THEN "BadRequest"
    ELSE Switch(decision)

\* what AssistantProposalDecision does with a request for proposal id of
\* trip, up to the switch on the decision: the status it answers with, or
\* the step it goes on with
Route(store, now, id, trip, bodyOK, decision) ==
    IF ~bodyOK THEN "BadRequest"
    ELSE IF ~hasAssistantProposal(store, id) THEN "Gone"
    ELSE IF store[id].TripID # trip THEN "Forbidden"
    ELSE IF expired(store[id], now) THEN "popExpired"
    ELSE IF Switch(decision) = "" THEN "BadRequest"
    ELSE Switch(decision)

\* the request r arrives: r.bodyOK is whether its body decodes, r.decision
\* the decision it carries. The clock is read in the step of the lookup: a
\* tick between the two has the effect of the request arriving one tick later.
Receive(w, r) ==
    /\ FirstFree(w)
    /\ LET to == Route(items, clock, r.id, r.trip, r.bodyOK, r.decision)
       IN  IF to \in {"popExpired", "apply", "pop"}
           THEN /\ req' = [req EXCEPT ![w] =
                             [pc |-> to, id |-> r.id, trip |-> r.trip,
                              decision |-> r.decision, proposal |-> items[r.id]]]
                /\ response' = NoResponse
           ELSE /\ response' = to
                /\ UNCHANGED req
    /\ UNCHANGED <<records, created, applied, processed>>
    /\ UNCHANGED storeVars
    /\ UNCHANGED streamVars
    /\ UNCHANGED chat
    /\ UNCHANGED lockVars
    /\ UNCHANGED feed
    /\ UNCHANGED prompt
    /\ UNCHANGED snapshot
    /\ UNCHANGED clientVars

\* an expiry branch that answers Gone and leaves the proposal in the store
PopExpiredKeeps(w) ==
    /\ req[w].pc = "popExpired"
    /\ req' = [req EXCEPT ![w] = Idle]
    /\ response' = "Gone"
    /\ UNCHANGED <<items, clock, issued>>
    /\ UNCHANGED <<records, created, applied, processed>>
    /\ UNCHANGED streamVars
    /\ UNCHANGED chat
    /\ UNCHANGED lockVars
    /\ UNCHANGED feed
    /\ UNCHANGED prompt
    /\ UNCHANGED snapshot
    /\ UNCHANGED clientVars

\* the expired proposal is popped and the answer is Gone
PopExpired(w) ==
    /\ req[w].pc = "popExpired"
    /\ items' = popAssistantProposal(items, req[w].id)
    /\ req' = [req EXCEPT ![w] = Idle]
    /\ response' = "Gone"
    /\ UNCHANGED <<clock, issued>>
    /\ UNCHANGED <<records, created, applied, processed>>
    /\ UNCHANGED streamVars
    /\ UNCHANGED chat
    /\ UNCHANGED lockVars
    /\ UNCHANGED feed
    /\ UNCHANGED prompt
    /\ UNCHANGED snapshot
    /\ UNCHANGED clientVars

\* case "approve": applyAssistantProposal; storeOK is whether the record
\* store accepts the write
Apply(w, storeOK) ==
    /\ req[w].pc = "apply"
    /\ LET result == applyAssistantProposal(records, NewRecordID(created + 1),
                                            req[w].trip, req[w].proposal)
       IN  IF storeOK /\ result.ok
           THEN /\ records' = result.records
                /\ created' = IF result.op = "create" THEN created + 1 ELSE created
                /\ applied' = [applied EXCEPT ![req[w].id] = @ + 1]
                /\ req' = [req EXCEPT ![w].pc = "pop"]
                /\ response' = NoResponse
           ELSE /\ req' = [req EXCEPT ![w] = Idle]
                /\ response' = "InternalError"
                /\ UNCHANGED <<records, created, applied>>
    /\ UNCHANGED processed
    /\ UNCHANGED storeVars
    /\ UNCHANGED streamVars
    /\ UNCHANGED chat
    /\ UNCHANGED lockVars
    /\ UNCHANGED feed
    /\ UNCHANGED prompt
    /\ UNCHANGED snapshot
    /\ UNCHANGED clientVars

\* the status of a processed decision
StatusOf(decision) ==
    CASE ToLower(decision) = "approve" -> "approved"
      [] ToLower(decision) = "decline" -> "declined"
      [] ToLower(decision) = "timeout" -> "timeout"

\* popAssistantProposal and the answer of a processed decision
Pop(w) ==
    /\ req[w].pc = "pop"
    /\ items' = popAssistantProposal(items, req[w].id)
    /\ req' = [req EXCEPT ![w] = Idle]
    /\ response' = StatusOf(req[w].decision)
    /\ processed' = [processed EXCEPT ![req[w].id] = @ + 1]
    /\ UNCHANGED <<clock, issued>>
    /\ UNCHANGED <<records, created, applied>>
    /\ UNCHANGED streamVars
    /\ UNCHANGED chat
    /\ UNCHANGED lockVars
    /\ UNCHANGED feed
    /\ UNCHANGED prompt
    /\ UNCHANGED snapshot
    /\ UNCHANGED clientVars

(***************************************************************************)
(* The proposal store under its lock: concurrent calls of                  *)
(* storeAssistantProposal, getAssistantProposal and popAssistantProposal,  *)
(* each one a sequence of steps of its goroutine.                          *)
(***************************************************************************)
Goroutines == {1, 2, 3}

StoreOps == {"put", "get", "pop"}

Unlocked == [writer |-> 0, readers |-> {}]

\* a Lock that does not wait
LockAtOnce(m) == TRUE

\* sync.RWMutex.Lock goes on when no goroutine holds the lock
Lock(m) == m.writer = 0 /\ m.readers = {}

\* sync.RWMutex.RLock goes on when no goroutine holds the write lock
RLock(m) == m.writer = 0

NoCall == [pc |-> "idle", op |-> "", id |-> 0, proposal |-> NoProposal, ok |-> FALSE]

InitLock ==
    /\ mutex = Unlocked
    /\ calls = [g \in Goroutines |-> NoCall]
    /\ popped = [id \in ProposalIDs |-> 0]

\* goroutine g calls a store function; a put is the call finalizeProposal
\* makes, with a proposal under a new id
StoreCall(g, op, id) ==
    /\ calls[g].pc = "idle"
    /\ IF op = "put"
       THEN /\ issued < MaxProposals
            /\ id = issued + 1
            /\ issued' = issued + 1
            /\ calls' = [calls EXCEPT ![g] =
                  [pc |-> "lock", op |-> op, id |-> id, ok |-> FALSE,
                   proposal |-> NewProposal(id, "t1", "create_activity", EmptyMap,
                                            clock, clock)]]
       ELSE /\ calls' = [calls EXCEPT ![g] =
                  [pc |-> "lock", op |-> op, id |-> id, ok |-> FALSE,
                   proposal |-> NoProposal]]
            /\ UNCHANGED issued
    /\ UNCHANGED <<items, clock, mutex, popped>>
    /\ UNCHANGED streamVars
    /\ UNCHANGED decisionVars
    /\ UNCHANGED chat
    /\ UNCHANGED feed
    /\ UNCHANGED prompt
    /\ UNCHANGED snapshot
    /\ UNCHANGED clientVars

\* proposalStore.Lock() of put and pop, proposalStore.RLock() of get
Acquire(g) ==
    /\ calls[g].pc = "lock"
    /\ IF calls[g].op = "get"
       THEN /\ RLock(mutex)
            /\ mutex' = [mutex EXCEPT !.readers = @ \cup {g}]
       ELSE /\ Lock(mutex)
            /\ mutex' = [mutex EXCEPT !.writer = g]
    /\ calls' = [calls EXCEPT ![g].pc = "body"]
    /\ UNCHANGED <<items, clock, issued, popped>>
    /\ UNCHANGED streamVars
    /\ UNCHANGED decisionVars
    /\ UNCHANGED chat
    /\ UNCHANGED feed
    /\ UNCHANGED prompt
    /\ UNCHANGED snapshot
    /\ UNCHANGED clientVars

\* the access to proposalStore.items: the write of a put, the lookup of a
\* get or a pop
Access(g) ==
    /\ calls[g].pc = "body"
    /\ LET c == calls[g]
           ok == hasAssistantProposal(items, c.id)
       IN  IF c.op = "put"
           THEN /\ items' = storeAssistantProposal(items, c.proposal)
                /\ calls' = [calls EXCEPT ![g].pc = "unlock"]
           ELSE /\ calls' = [calls EXCEPT ![g] =
                      [c EXCEPT !.ok = ok,
                                !.proposal = IF ok THEN items[c.id] ELSE NoProposal,
                                !.pc = IF c.op = "pop" /\ ok THEN "delete" ELSE "unlock"]]
                /\ UNCHANGED items
    /\ UNCHANGED <<clock, issued, mutex, popped>>
    /\ UNCHANGED streamVars
    /\ UNCHANGED decisionVars
    /\ UNCHANGED chat
    /\ UNCHANGED feed
    /\ UNCHANGED prompt
    /\ UNCHANGED snapshot
    /\ UNCHANGED clientVars

\* delete(proposalStore.items, id) of a pop that found the proposal
Delete(g) ==
    /\ calls[g].pc = "delete"
    /\ items' = popAssistantProposal(items, calls[g].id)
    /\ calls' = [calls EXCEPT ![g].pc = "unlock"]
    /\ UNCHANGED <<clock, issued, mutex, popped>>
    /\ UNCHANGED streamVars
    /\ UNCHANGED decisionVars
    /\ UNCHANGED chat
    /\ UNCHANGED feed
    /\ UNCHANGED prompt
    /\ UNCHANGED snapshot
    /\ UNCHANGED clientVars

\* the deferred Unlock or RUnlock, and the return of the call
Release(g) ==
    /\ calls[g].pc = "unlock"
    /\ mutex' = [writer |-> IF mutex.writer = g THEN 0 ELSE mutex.writer,
                 readers |-> mutex.readers \ {g}]
    /\ popped' = IF calls[g].op = "pop" /\ calls[g].ok
                 THEN [popped EXCEPT ![calls[g].id] = @ + 1]
                 ELSE popped
    /\ calls' = [calls EXCEPT ![g] = NoCall]
    /\ UNCHANGED <<items, clock, issued>>
    /\ UNCHANGED streamVars
    /\ UNCHANGED decisionVars
    /\ UNCHANGED chat
    /\ UNCHANGED feed
    /\ UNCHANGED prompt
    /\ UNCHANGED snapshot
    /\ UNCHANGED clientVars

(***************************************************************************)
(* One function call fed to the tool call buffer in fragments of any       *)
(* length: handleOutputItemAdded, then handleArgumentsDelta for each       *)
(* fragment, then finalizeProposal.                                        *)
(***************************************************************************)
\* an object with white space around its tokens, a number and a string
TextSpaced ==
    <<" ">> \o Object(<<" ">> \o Member(kCostValue, <<" ", "1", "2">>) \o <<",", "\n">>
                      \o Member(kName, Quoted(<<"A", " ", "b">>)) \o <<" ">>)

\* the well-formed argument texts
FragmentTexts == {c.text : c \in CallMenu} \cup {TextCreate, TextEmpty, TextSpaced}

NoFeed == [pc |-> "idle", text |-> <<>>, pos |-> 0, frags |-> 0]

InitFeed == feed = NoFeed

\* response.output_item.added of a function call with arguments text
FeedStart(text) ==
    /\ feed.pc \in {"idle", "done"}
    /\ issued < MaxProposals
    /\ callBuffer' = handleOutputItemAdded(callBuffer, "function_call",
                                           "create_activity", "fc_1")
    /\ feed' = [pc |-> "sending", text |-> text, pos |-> 0, frags |-> 0]
    /\ UNCHANGED <<spc, streamTrip, proposalIssued, completed, sent, textIn, provPos>>
    /\ UNCHANGED storeVars
    /\ UNCHANGED decisionVars
    /\ UNCHANGED chat
    /\ UNCHANGED lockVars
    /\ UNCHANGED prompt
    /\ UNCHANGED snapshot
    /\ UNCHANGED clientVars

\* response.function_call_arguments.delta with the next k characters, in an
\* event that names eventItemID
FeedFragment(k, eventItemID) ==
    /\ feed.pc = "sending"
    /\ k \in 1..(Len(feed.text) - feed.pos)
    /\ callBuffer' = handleArgumentsDelta(callBuffer, eventItemID,
                        SubSeq(feed.text, feed.pos + 1, feed.pos + k))
    /\ feed' = [feed EXCEPT !.pos = @ + k, !.frags = @ + 1]
    /\ UNCHANGED <<spc, streamTrip, proposalIssued, completed, sent, textIn, provPos>>
    /\ UNCHANGED storeVars
    /\ UNCHANGED decisionVars
    /\ UNCHANGED chat
    /\ UNCHANGED lockVars
    /\ UNCHANGED prompt
    /\ UNCHANGED snapshot
    /\ UNCHANGED clientVars

\* response.function_call_arguments.done after the last fragment
FeedDone(eventItemID) ==
    /\ feed.pc = "sending"
    /\ feed.pos = Len(feed.text)
    /\ LET r == finalizeProposal(callBuffer, eventItemID, "t1", items, issued + 1,
                                 clock, clock)
       IN  /\ callBuffer' = r.buffer
           /\ items' = r.store
           /\ issued' = IF r.ok THEN issued + 1 ELSE issued
    /\ feed' = [feed EXCEPT !.pc = "done"]
    /\ UNCHANGED <<spc, streamTrip, proposalIssued, completed, sent, textIn, provPos>>
    /\ UNCHANGED clock
    /\ UNCHANGED decisionVars
    /\ UNCHANGED chat
    /\ UNCHANGED lockVars
    /\ UNCHANGED prompt
    /\ UNCHANGED snapshot
    /\ UNCHANGED clientVars

(***************************************************************************)
(* The specifications.                                                     *)
(***************************************************************************)
(***************************************************************************)
(* The prompt of the assistant handlers.                                   *)
(***************************************************************************)
\* the longest message list enumerated in full
MaxMessages == 2

\* the roles and the contents of the messages a client sends
PromptRoles == {"user", "assistant", "system", "developer"}
PromptContents == {<<>>, <<" ">>, <<"h", "i">>}

\* a conversation longer than the legacy handler keeps
LongConversation ==
    [i \in 1..(maxAiMessages + 1) |->
        Message(IF i % 2 = 1 THEN "user" ELSE "assistant", <<"h", "i">>)]

\* req.Messages of the requests
PromptMessageLists ==
    UNION {[1..n -> {Message(r, c) : r \in PromptRoles, c \in PromptContents}] :
              n \in 0..MaxMessages}
    \cup {LongConversation}

\* the two instruction texts
systemPrompt == <<"You are Surmai's AI-powered itinerary assistant.">>
contextPrompt == <<"Latest trip context:", "ctxJSON">>

newResponsesTextBlock(role, text) ==
    [role |-> role,
     content |-> <<[type |-> IF role = "assistant" THEN "output_text"
                             ELSE "input_text",
                    text |-> text]>>]

\* the loop of buildResponsesInput over the messages from index i on
RECURSIVE appendMessages(_, _, _)
appendMessages(input, messages, i) ==
    IF i > Len(messages) THEN input
    ELSE LET message == messages[i]
         IN  IF message.content = <<>> THEN appendMessages(input, messages, i + 1)
             ELSE IF message.role # "user" /\ message.role # "assistant"
                  THEN appendMessages(input, messages, i + 1)
             ELSE appendMessages(
                      Append(input, newResponsesTextBlock(message.role,
                                                          message.content)),
                      messages, i + 1)

\* a prompt cut to the last maxAiMessages messages, as the legacy handler's
buildResponsesInputLastN(messages) ==
    appendMessages(<<newResponsesTextBlock("developer", systemPrompt),
                     newResponsesTextBlock("developer", contextPrompt)>>,
                   LastN(messages, maxAiMessages), 1)

buildResponsesInput(messages) ==
    appendMessages(<<newResponsesTextBlock("developer", systemPrompt),
                     newResponsesTextBlock("developer", contextPrompt)>>,
                   messages, 1)

NoPrompt == [pc |-> "idle", messages |-> <<>>, input |-> <<>>]

InitPrompt == prompt = NoPrompt

\* TripAssistantStream has decoded a request body with messages ms
PromptRequest(ms) ==
    /\ prompt.pc = "idle"
    /\ Len(ms) # 0
    /\ prompt' = [pc |-> "decoded", messages |-> ms, input |-> <<>>]
    /\ UNCHANGED streamVars
    /\ UNCHANGED storeVars
    /\ UNCHANGED decisionVars
    /\ UNCHANGED chat
    /\ UNCHANGED lockVars
    /\ UNCHANGED feed
    /\ UNCHANGED snapshot
    /\ UNCHANGED clientVars

\* responseInput, err := buildResponsesInput(req.Messages, ctx)
BuildPrompt ==
    /\ prompt.pc = "decoded"
    /\ prompt' = [prompt EXCEPT !.pc = "built",
                                !.input = buildResponsesInput(prompt.messages)]
    /\ UNCHANGED streamVars
    /\ UNCHANGED storeVars
    /\ UNCHANGED decisionVars
    /\ UNCHANGED chat
    /\ UNCHANGED lockVars
    /\ UNCHANGED feed
    /\ UNCHANGED snapshot
    /\ UNCHANGED clientVars

(***************************************************************************)
(* The trip context snapshot.                                              *)
(***************************************************************************)
\* the most rows the database holds
MaxRows == 3

ChildCollections == {"transportations", "lodgings", "activities"}

\* the values of a date field: 0 is the zero time of a field never set
StartTimes == {0, 1, 2}
EndTimes(coll) == IF coll = "transportations" THEN {0, 3} ELSE {0}

\* the field of the start and of the end of a record of a collection
StartField(coll) == IF coll = "transportations" THEN "departureTime" ELSE "startDate"
EndField(coll) == IF coll = "transportations" THEN "arrivalTime" ELSE "endDate"

\* a row of collection coll: record.Id, the trip relation, the date fields
Row(id, coll, trip, t, u) ==
    [Id |-> id, collection |-> coll, trip |-> trip,
     dates |-> (StartField(coll) :> t) @@ (EndField(coll) :> u)]

\* record.GetDateTime(field).Time()
GetDateTime(record, field) == record.dates[field]

\* formatDate: the empty string for the zero time, else the formatted time
formatDate(dt) == IF dt = 0 THEN <<>> ELSE FormatNat(dt)

\* app.FindAllRecords(coll, "trip = {:tripId}"): the rows of the collection
\* with that trip, in the order of the database
FindAllRecords(rows, coll, tripID) ==
    SelectSeq(rows, LAMBDA r : r.collection = coll /\ r.trip = tripID)

Swap(s, i, j) == [s EXCEPT ![i] = s[j], ![j] = s[i]]

\* the inner loop of the insertion sort sort.Slice runs on a short slice:
\* for j := i; j > a && less(j, j-1); j-- { swap(j, j-1) }
RECURSIVE sinkDown(_, _, _)
sinkDown(s, j, field) ==
    IF j > 1 /\ GetDateTime(s[j], field) < GetDateTime(s[j - 1], field)
    THEN sinkDown(Swap(s, j, j - 1), j - 1, field)
    ELSE s

\* sort.Slice(records, less) with less the Before of the times of field:
\* for i := a + 1; i < b; i++ { ... }
RECURSIVE sortSliceFrom(_, _, _)
sortSliceFrom(s, i, field) ==
    IF i > Len(s) THEN s
    ELSE sortSliceFrom(sinkDown(s, i, field), i + 1, field)

sortSlice(s, field) == sortSliceFrom(s, 2, field)

\* the summaries of the sorted records: the id and the two formatted dates
Summaries(s, startField, endField) ==
    [i \in 1..Len(s) |->
        [Id |-> s[i].Id,
         Start |-> formatDate(GetDateTime(s[i], startField)),
         End |-> formatDate(GetDateTime(s[i], endField))]]

\* transportation summaries sorted by the arrival time
collectTransportationsByArrival(rows, tripID) ==
    Summaries(sortSlice(FindAllRecords(rows, "transportations", tripID),
                        "arrivalTime"),
              "departureTime", "arrivalTime")

collectTransportations(rows, tripID) ==
    Summaries(sortSlice(FindAllRecords(rows, "transportations", tripID),
                        "departureTime"),
              "departureTime", "arrivalTime")

collectLodgings(rows, tripID) ==
    Summaries(sortSlice(FindAllRecords(rows, "lodgings", tripID), "startDate"),
              "startDate", "endDate")

collectActivities(rows, tripID) ==
    Summaries(sortSlice(FindAllRecords(rows, "activities", tripID), "startDate"),
              "startDate", "endDate")

\* the child lists of the context of buildTripAssistantContext
buildTripAssistantContext(rows, tripID) ==
    [transportations |-> collectTransportations(rows, tripID),
     lodgings |-> collectLodgings(rows, tripID),
     activities |-> collectActivities(rows, tripID)]

NoContext == [transportations |-> <<>>, lodgings |-> <<>>, activities |-> <<>>]

NoSnapshot == [pc |-> "idle", rows |-> <<>>, trip |-> NoTrip, ctx |-> NoContext]

InitSnapshot == snapshot = NoSnapshot

\* a record of a child collection is saved
CreateRow(coll, trip, t, u) ==
    /\ snapshot.pc = "idle"
    /\ Len(snapshot.rows) < MaxRows
    /\ snapshot' = [snapshot EXCEPT
                      !.rows = Append(@, Row(Len(@) + 1, coll, trip, t, u))]
    /\ UNCHANGED streamVars
    /\ UNCHANGED storeVars
    /\ UNCHANGED decisionVars
    /\ UNCHANGED chat
    /\ UNCHANGED lockVars
    /\ UNCHANGED feed
    /\ UNCHANGED prompt
    /\ UNCHANGED clientVars

\* ctx, err := buildTripAssistantContext(e.App, tripRecord)
BuildContext(trip) ==
    /\ snapshot.pc = "idle"
    /\ snapshot' = [snapshot EXCEPT
                      !.pc = "built", !.trip = trip,
                      !.ctx = buildTripAssistantContext(snapshot.rows, trip)]
    /\ UNCHANGED streamVars
    /\ UNCHANGED storeVars
    /\ UNCHANGED decisionVars
    /\ UNCHANGED chat
    /\ UNCHANGED lockVars
    /\ UNCHANGED feed
    /\ UNCHANGED prompt
    /\ UNCHANGED clientVars

(***************************************************************************)
(* The TripAssistant component of the web client.                          *)
(***************************************************************************)
\* type ProposalDecision
ProposalDecisions == {"approve", "decline", "timeout"}

\* expires.diff(dayjs(), 'second') when the proposal arrives, in units of the
\* countdown
Countdowns == 0..proposalTTL

\* pendingProposal (0 for null), what expires.diff(dayjs()) is now,
\* timeoutHandled of the countdown effect, isStreaming, the decision requests
\* awaiting their response, and as history the number of proposals shown and
\* the decisions submitted for the pending proposal or the last one
NoClient ==
    [pendingProposal |-> 0, diff |-> 0, proposalCountdown |-> 0,
     timeoutHandled |-> FALSE, isStreaming |-> FALSE, inFlight |-> {},
     shown |-> 0, submitted |-> <<>>]

InitClient == client = NoClient

\* handleProposalDecision up to its await: the request is sent
handleProposalDecision(c, decision) ==
    IF c.pendingProposal = 0 THEN c
    ELSE [c EXCEPT !.isStreaming = TRUE,
                   !.inFlight = @ \cup {decision},
                   !.submitted = Append(@, decision)]

\* updateCountdown of the countdown effect
updateCountdown(c) ==
    IF c.diff <= 0
    THEN LET zero == [c EXCEPT !.proposalCountdown = 0]
         IN  IF ~c.timeoutHandled
             THEN handleProposalDecision([zero EXCEPT !.timeoutHandled = TRUE],
                                         "timeout")
             ELSE zero
    ELSE [c EXCEPT !.proposalCountdown = c.diff]

OtherThanClient ==
    /\ UNCHANGED streamVars
    /\ UNCHANGED storeVars
    /\ UNCHANGED decisionVars
    /\ UNCHANGED chat
    /\ UNCHANGED lockVars
    /\ UNCHANGED feed
    /\ UNCHANGED prompt
    /\ UNCHANGED snapshot
    /\ UNCHANGED reader

\* a proposal event of a stream: setPendingProposal(proposal), and the stream
\* ends (finally: setIsStreaming(false)); the countdown effect starts over
\* and calls updateCountdown once. handleSend starts a stream only with no
\* proposal pending and not streaming
ShowProposal(diff) ==
    /\ client.pendingProposal = 0
    /\ ~client.isStreaming
    /\ client.shown < MaxProposals + 1
    /\ client' = updateCountdown(
                     [client EXCEPT !.pendingProposal = client.shown + 1,
                                    !.shown = @ + 1,
                                    !.diff = diff,
                                    !.timeoutHandled = FALSE,
                                    !.submitted = <<>>])
    /\ OtherThanClient

\* a second passes
Second ==
    /\ client.pendingProposal # 0
    /\ client.diff > 0
    /\ client' = [client EXCEPT !.diff = @ - 1]
    /\ OtherThanClient

\* the interval of the countdown effect calls updateCountdown, until the
\* effect is cleaned up
CountdownFires ==
    /\ client.pendingProposal # 0
    /\ client' = updateCountdown(client)
    /\ OtherThanClient

\* a click on Approve or Decline, which are disabled while isStreaming
Click(decision) ==
    /\ client.pendingProposal # 0
    /\ ~client.isStreaming
    /\ client' = handleProposalDecision(client, decision)
    /\ OtherThanClient

\* the response of a decision request arrives, or the request fails:
\* finally { setPendingProposal(null); setIsStreaming(false) }
DecisionSettles(decision) ==
    /\ decision \in client.inFlight
    /\ client' = [client EXCEPT !.inFlight = @ \ {decision},
                                !.pendingProposal = 0,
                                !.isStreaming = FALSE]
    /\ OtherThanClient

(***************************************************************************)
(* The read loop of the client's event stream.                             *)
(***************************************************************************)
\* index of the first occurrence of sep in s at or after i (0 if none)
IndexOf(s, sep, i) ==
    LET at == {j \in i..(Len(s) - Len(sep) + 1) :
                  SubSeq(s, j, j + Len(sep) - 1) = sep}
    IN  IF at = {} THEN 0 ELSE CHOOSE j \in at : \A k \in at : j <= k

\* String.prototype.split(sep) on s from index i, acc the pieces so far
RECURSIVE SplitFrom(_, _, _, _)
SplitFrom(s, sep, i, acc) ==
    LET j == IndexOf(s, sep, i)
    IN  IF j = 0 THEN Append(acc, SubSeq(s, i, Len(s)))
        ELSE SplitFrom(s, sep, j + Len(sep), Append(acc, SubSeq(s, i, j - 1)))

Split(s, sep) == SplitFrom(s, sep, 1, <<>>)

DataPrefix == <<"d", "a", "t", "a", ":">>

startsWith(l, prefix) ==
    Len(l) >= Len(prefix) /\ SubSeq(l, 1, Len(prefix)) = prefix

\* the events of the segments from index i on, acc the events so far:
\* the first trimmed line that starts with data:, its payload trimmed,
\* JSON.parse of the payload; a segment without such a line, with an empty
\* payload or with a payload that does not parse gives no event
RECURSIVE segmentEvents(_, _, _)
segmentEvents(segments, i, acc) ==
    IF i > Len(segments) THEN acc
    ELSE LET ls == Split(segments[i], <<"\n">>)
             lines == [k \in 1..Len(ls) |-> TrimSpace(ls[k])]
             found == {k \in 1..Len(lines) : startsWith(lines[k], DataPrefix)}
         IN  IF found = {} THEN segmentEvents(segments, i + 1, acc)
             ELSE LET line == lines[CHOOSE k \in found : \A m \in found : k <= m]
                      payload == TrimSpace(SubSeq(line, 6, Len(line)))
                      parsed == Unmarshal(payload)
                  IN  IF payload = <<>> \/ ~parsed.ok
                      THEN segmentEvents(segments, i + 1, acc)
                      ELSE segmentEvents(segments, i + 1, Append(acc, parsed.args))

\* a parser that carries nothing forward
parseSSEPayloadsNoCarry(buffer) ==
    LET segments == Split(buffer, <<"\n", "\n">>)
    IN  [events |-> segmentEvents(SubSeq(segments, 1, Len(segments) - 1), 1, <<>>),
         remaining |-> <<>>]

parseSSEPayloads(buffer) ==
    LET segments == Split(buffer, <<"\n", "\n">>)
    IN  [events |-> segmentEvents(SubSeq(segments, 1, Len(segments) - 1), 1, <<>>),
         remaining |-> segments[Len(segments)]]

\* what sendSSEEvent writes for a payload
SSE(data) == <<"d", "a", "t", "a", ":", " ">> \o data \o <<"\n", "\n">>

\* the event streams read: two events; an event after a comment record and
\* before a record whose payload does not parse; records with a blank line
\* more between them and an event line after another line
EventStreams ==
    { SSE(TextCreate) \o SSE(Object(<<>>)),
      <<":", "\n", "\n">> \o SSE(Object(JType(<<"x">>))) \o SSE(<<"{">>),
      SSE(Object(<<>>)) \o <<"\n">> \o SSE(Object(JName(<<"B">>)))
          \o <<"i", "d", ":", "1", "\n", " ">> \o SSE(Object(<<>>)) }

NoReader == [pc |-> "idle", stream |-> <<>>, pos |-> 0, buffer |-> <<>>, events |-> <<>>]

InitReader == reader = NoReader

OtherThanReader ==
    /\ UNCHANGED streamVars
    /\ UNCHANGED storeVars
    /\ UNCHANGED decisionVars
    /\ UNCHANGED chat
    /\ UNCHANGED lockVars
    /\ UNCHANGED feed
    /\ UNCHANGED prompt
    /\ UNCHANGED snapshot
    /\ UNCHANGED client

\* the response of the stream request arrives: let buffer = ''
ReaderStart(stream) ==
    /\ reader.pc = "idle"
    /\ reader' = [pc |-> "reading", stream |-> stream, pos |-> 0,
                  buffer |-> <<>>, events |-> <<>>]
    /\ OtherThanReader

\* reader.read() returns the next k characters: buffer += chunk,
\* parseSSEPayloads(buffer), buffer = remaining
ReadChunk(k) ==
    /\ reader.pc = "reading"
    /\ reader.pos + k <= Len(reader.stream)
    /\ LET chunk == SubSeq(reader.stream, reader.pos + 1, reader.pos + k)
           r == parseSSEPayloads(reader.buffer \o chunk)
       IN  reader' = [reader EXCEPT !.pos = @ + k,
                                    !.buffer = r.remaining,
                                    !.events = @ \o r.events]
    /\ OtherThanReader

\* reader.read() returns done
ReadDone ==
    /\ reader.pc = "reading"
    /\ reader.pos = Len(reader.stream)
    /\ reader' = [reader EXCEPT !.pc = "done"]
    /\ OtherThanReader

Init ==
    /\ InitStore /\ InitChat /\ InitStream /\ InitDecision /\ InitLock /\ InitFeed
    /\ InitPrompt /\ InitSnapshot /\ InitClient /\ InitReader

Next ==
    \/ \E handler \in Handlers, apiKey \in APIKeys, body \in ChatBodies,
          trip \in Trips \cup {NoTrip}, env \in Collaborators :
            ChatRequest(handler, apiKey, body, trip, env)
    \/ \E trip \in Trips : ProviderConnect(trip)
    \/ \E trip \in Trips : ProviderRefuse(trip)
    \/ IgnoredLine
    \/ \E t \in {"function_call", "message"}, id \in ItemIDs : OutputItemAdded(t, id)
    \/ \E id \in ItemIDs, k \in {0, FragLen} :
          \E e \in {id, ""} : ArgumentsDelta(id, e, k)
    \/ \E e \in ItemIDs \cup {""}, lag \in Lags : ArgumentsDone(e, lag)
    \/ \E d \in TextDeltas : OutputTextDelta(d)
    \/ ResponseCompleted
    \/ \E m \in ErrorMessages : ResponseError(m)
    \/ StreamEnd
    \/ ScanFail

Spec == Init /\ [][Next]_vars

\* a streaming request of trip t1 that passes the entry checks of
\* TripAssistantStream, and its turn
NextTurn ==
    \/ ChatRequest("TripAssistantStream", <<"s", "k">>,
                   [bodyOK |-> TRUE, messages |-> <<Message("user", <<"h", "i">>)>>],
                   "t1", [context |-> TRUE, provider |-> TRUE, flusher |-> TRUE])
    \/ ProviderConnect("t1")
    \/ ProviderRefuse("t1")
    \/ IgnoredLine
    \/ \E t \in {"function_call", "message"}, id \in ItemIDs : OutputItemAdded(t, id)
    \/ \E id \in ItemIDs, k \in {0, FragLen} :
          \E e \in {id, ""} : ArgumentsDelta(id, e, k)
    \/ \E e \in ItemIDs \cup {""} : ArgumentsDone(e, 0)
    \/ \E d \in TextDeltas : OutputTextDelta(d)
    \/ ResponseCompleted
    \/ \E m \in ErrorMessages : ResponseError(m)
    \/ StreamEnd
    \/ ScanFail

SpecTurn == Init /\ [][NextTurn]_vars

\* the turns of a provider whose stream comes to an end: the body ends or
\* [DONE] arrives, or the read fails or the request is cancelled
SpecLive == SpecTurn /\ WF_vars(StreamEnd \/ ScanFail)

\* two requests at a time; the proposals are built within one reading of the
\* clock
NextDecision ==
    \/ \E trip \in Trips, c \in RaceMenu : IssueProposal(trip, c, 0)
    \/ Tick
    \/ \E w \in Workers, r \in RaceRequests : Receive(w, r)
    \/ \E w \in Workers : PopExpired(w)
    \/ \E w \in Workers, storeOK \in BOOLEAN : Apply(w, storeOK)
    \/ \E w \in Workers : Pop(w)

SpecDecision == Init /\ [][NextDecision]_vars

\* one request at a time, on every call of the menu
NextApply ==
    \/ \E t \in ApplyMenu, lag \in Lags : IssueProposal(t.trip, t.call, lag)
    \/ Tick
    \/ \E r \in Requests : Receive(1, r)
    \/ PopExpired(1)
    \/ \E storeOK \in BOOLEAN : Apply(1, storeOK)
    \/ Pop(1)

SpecApply == Init /\ [][NextApply]_vars

\* one request at a time, of every kind, on the calls of the race menu
NextRequests ==
    \/ \E trip \in Trips, c \in RaceMenu, lag \in Lags : IssueProposal(trip, c, lag)
    \/ Tick
    \/ \E r \in Requests : Receive(1, r)
    \/ PopExpired(1)
    \/ \E storeOK \in BOOLEAN : Apply(1, storeOK)
    \/ Pop(1)

SpecRequests == Init /\ [][NextRequests]_vars

\* one request at a time, with one proposal more in the store than the other
\* specifications keep, so that a request for one finds another beside it
NextSiblings ==
    \/ \E trip \in Trips, c \in RaceMenu :
           IssueProposalBelow(MaxProposals + 1, trip, c, 0)
    \/ Tick
    \/ \E r \in Requests : Receive(1, r)
    \/ PopExpired(1)
    \/ \E storeOK \in BOOLEAN : Apply(1, storeOK)
    \/ Pop(1)

SpecSiblings == Init /\ [][NextSiblings]_vars

\* the proposals of the update menu, approved one after the other by
\* requests of their trip
NextUpdates ==
    \/ \E c \in UpdateMenu : IssueProposalBelow(MaxProposals + 1, "t1", c, 0)
    \/ \E id \in ProposalIDs :
          Receive(1, [id |-> id, trip |-> "t1", decision |-> "approve", bodyOK |-> TRUE])
    \/ \E storeOK \in BOOLEAN : Apply(1, storeOK)
    \/ Pop(1)

SpecUpdates == Init /\ [][NextUpdates]_vars

\* the goroutines call the store functions, in any interleaving of their steps
NextStore ==
    \/ \E g \in Goroutines, op \in StoreOps, id \in ProposalIDs : StoreCall(g, op, id)
    \/ \E g \in Goroutines : Acquire(g)
    \/ \E g \in Goroutines : Access(g)
    \/ \E g \in Goroutines : Delete(g)
    \/ \E g \in Goroutines : Release(g)

SpecStore == Init /\ [][NextStore]_vars

\* function calls fed to the buffer, each one cut into fragments in any way
NextFragments ==
    \/ \E text \in FragmentTexts : FeedStart(text)
    \/ \E k \in 1..Len(feed.text), e \in {"fc_1", ""} : FeedFragment(k, e)
    \/ \E e \in {"fc_1", ""} : FeedDone(e)

SpecFragments == Init /\ [][NextFragments]_vars

\* the requests of the streaming path and the prompts built for them
NextPrompt ==
    \/ \E ms \in PromptMessageLists : PromptRequest(ms)
    \/ BuildPrompt

SpecPrompt == Init /\ [][NextPrompt]_vars

\* the child records written and the trip contexts built from them
NextSnapshot ==
    \/ \E coll \in ChildCollections, trip \in Trips, t \in StartTimes :
           \E u \in EndTimes(coll) : CreateRow(coll, trip, t, u)
    \/ \E trip \in Trips : BuildContext(trip)

SpecSnapshot == Init /\ [][NextSnapshot]_vars

\* the proposals shown by the client, the countdown and the decisions
NextClient ==
    \/ \E diff \in Countdowns : ShowProposal(diff)
    \/ Second
    \/ CountdownFires
    \/ \E decision \in {"approve", "decline"} : Click(decision)
    \/ \E decision \in ProposalDecisions : DecisionSettles(decision)

SpecClient == Init /\ [][NextClient]_vars

\* the event streams read by the client, each cut into reads in any way
NextReader ==
    \/ \E stream \in EventStreams : ReaderStart(stream)
    \/ \E k \in 1..Len(reader.stream) : ReadChunk(k)
    \/ ReadDone

SpecReader == Init /\ [][NextReader]_vars

(***************************************************************************)
(* The streaming turn: properties.                                         *)
(***************************************************************************)
\* the proposal, done and error events among the events out
Terminals(out) == SelectSeq(out, LAMBDA e : e.type \in {"proposal", "done", "error"})

\* the texts of the delta events among the events out
DeltaTexts(out) ==
    LET ds == SelectSeq(out, LAMBDA e : e.type = "delta")
    IN  [i \in 1..Len(ds) |-> ds[i].text]

\* C1: a proposal event is the last event of its turn: at most one is sent,
\* and no delta, done, error or second proposal follows it.
C1_ProposalEndsTurn ==
    \A i \in 1..Len(sent) : sent[i].type = "proposal" => i = Len(sent)

\* a turn that forwarded text, then sent a proposal and ended
C1_Witness ==
    /\ spc = "closed"
    /\ Len(sent) >= 2
    /\ sent[1].type = "delta"
    /\ sent[Len(sent)].type = "proposal"

\* C2: a turn sends exactly one terminal event (proposal, done or error):
\* never more than one, and one once the handler has returned.
C2_ExactlyOneTerminal ==
    /\ Len(Terminals(sent)) <= 1
    /\ spc = "closed" => Len(Terminals(sent)) = 1

\* C3: the texts of the delta events sent are the non-empty texts of the
\* provider's text-delta events processed so far, in the same order.
C3_DeltasForwardedInOrder ==
    DeltaTexts(sent) = SelectSeq(textIn, LAMBDA d : d # "")

\* two different texts and an empty one were processed
C3_Witness ==
    /\ Len(textIn) = 3
    /\ textIn[1] = "Hi"
    /\ textIn[2] = ""
    /\ textIn[3] = "ok"
    /\ Len(sent) = 2

\* C4: no delta event is sent after a proposal, done or error event.
C4_NoDeltaAfterTerminal ==
    \A i \in 1..Len(sent), j \in 1..Len(sent) :
        (i < j /\ sent[i].type \in {"proposal", "done", "error"})
            => sent[j].type # "delta"

(***************************************************************************)
(* Decisions: properties.                                                  *)
(***************************************************************************)
\* worker w takes a step
Steps(w) == req'[w] # req[w]

\* worker w ends its request
Returns(w) == req[w].pc # "idle" /\ req'[w].pc = "idle"

\* the ids of the records that a step creates, changes or deletes
Changed ==
    {rid \in DOMAIN records \cup DOMAIN records' :
        \/ rid \notin DOMAIN records
        \/ rid \notin DOMAIN records'
        \/ records[rid] # records'[rid]}

\* the collection a create, update or delete tool works on
CollectionOfTool(tool) ==
    CASE tool \in {"create_activity", "update_activity", "delete_activity"} -> "activities"
      [] tool \in {"create_lodging", "update_lodging", "delete_lodging"} -> "lodgings"
      [] tool \in {"create_transportation", "update_transportation",
                   "delete_transportation"} -> "transportations"
      [] OTHER -> ""

\* C5: the record store changes only in the apply step of a request whose
\* decision is approve, and a request reaches that step only for a proposal
\* that is in the store, is not expired and has the trip of the request; the
\* streaming turn that issues a proposal writes nothing.
C5_OnlyApprovedProposalsWrite ==
    [][ /\ \A w \in Workers :
              (req[w].pc # "apply" /\ req'[w].pc = "apply") =>
                  /\ ToLower(req'[w].decision) = "approve"
                  /\ req'[w].id \in DOMAIN items
                  /\ items[req'[w].id] = req'[w].proposal
                  /\ clock <= items[req'[w].id].ExpiresAt
                  /\ items[req'[w].id].TripID = req'[w].trip
        /\ (records' # records \/ applied' # applied \/ created' # created) =>
              \E w \in Workers :
                  /\ req[w].pc = "apply"
                  /\ req'[w].pc = "pop"
                  /\ applied' = [applied EXCEPT ![req[w].id] = @ + 1]
      ]_vars

\* an approved proposal has changed the record store
C5_Witness ==
    /\ applied[1] = 1
    /\ records # InitialRecords
    /\ response = "approved"

\* the apply step of worker w makes one create, update or delete in the
\* collection of the proposal's tool
OneMutation(w) ==
    LET tool == req[w].proposal.Tool
        coll == CollectionOfTool(tool)
    IN  /\ applied' = [applied EXCEPT ![req[w].id] = @ + 1]
        /\ Cardinality(Changed) <= 1
        /\ \A rid \in Changed :
              /\ rid \in DOMAIN records => records[rid].collection = coll
              /\ rid \in DOMAIN records' => records'[rid].collection = coll
        /\ tool \in {"create_activity", "create_lodging", "create_transportation"} =>
              /\ Cardinality(Changed) = 1
              /\ Changed = DOMAIN records' \ DOMAIN records
        /\ tool \in {"update_activity", "update_lodging", "update_transportation"} =>
              DOMAIN records' = DOMAIN records
        /\ tool \in {"delete_activity", "delete_lodging", "delete_transportation"} =>
              /\ Cardinality(Changed) = 1
              /\ Changed = DOMAIN records \ DOMAIN records'

C7_SingleUse ==
    \A id \in ProposalIDs : processed[id] <= 1 /\ applied[id] <= 1

C9_TripMismatchForbidden ==
    [][ \A w \in Workers, r \in Requests :
          (/\ r.bodyOK
           /\ r.id \in DOMAIN items
           /\ items[r.id].TripID # r.trip
           /\ Receive(w, r)) =>
              /\ response' = "Forbidden"
              /\ req' = req
              /\ records' = records
              /\ items' = items
              /\ applied' = applied
      ]_vars

\* a request was answered Forbidden while the proposal stays in the store
C9_Witness ==
    /\ response = "Forbidden"
    /\ 1 \in DOMAIN items
    /\ records = InitialRecords

\* C10: a request whose decision is decline or timeout never reaches the
\* apply step, and none of its steps changes a record.
C10_DeclineTimeoutLeaveRecords ==
    [][ \A w \in Workers :
          /\ ToLower(req'[w].decision) \in {"decline", "timeout"} =>
                req'[w].pc # "apply"
          /\ (Steps(w) /\ (\/ ToLower(req[w].decision) \in {"decline", "timeout"}
                           \/ ToLower(req'[w].decision) \in {"decline", "timeout"})) =>
                /\ records' = records
                /\ created' = created
                /\ applied' = applied
      ]_vars

\* a decline or a timeout was processed
C10_Witness ==
    /\ response \in {"declined", "timeout"}
    /\ processed[1] = 1
    /\ applied[1] = 0

\* C11: an approve request whose mutation fails is answered with an internal
\* error, changes no record and consumes the proposal: the id is no longer
\* in the store.
C11_FailedApplyConsumes ==
    [][ \A w \in Workers :
          (req[w].pc = "apply" /\ Returns(w)) =>
              /\ response' = "InternalError"
              /\ records' = records
              /\ req[w].id \notin DOMAIN items'
      ]_vars

UpdateDeleteTools ==
    {"update_activity", "update_lodging", "update_transportation",
     "delete_activity", "delete_lodging", "delete_transportation"}

\* C14: the apply step of an update or delete proposal changes or deletes
\* only the record named by record_id, and only if that record is of the
\* requesting trip; when record_id is empty, names no record or names a
\* record of another trip, the request is answered with an error and no
\* record is changed or deleted.
C14_OwnRecordsOnly ==
    [][ \A w \in Workers :
          (/\ req[w].pc = "apply"
           /\ Steps(w)
           /\ req[w].proposal.Tool \in UpdateDeleteTools) =>
              LET rid == stringValue(req[w].proposal.Arguments, kRecordId)
                  own == /\ rid # <<>>
                         /\ rid \in DOMAIN records
                         /\ records[rid].trip = req[w].trip
              IN  /\ Changed \subseteq {rid}
                  /\ Changed # {} => own
                  /\ \A r \in DOMAIN records' :
                        r \in DOMAIN records /\ records'[r].trip = records[r].trip
                  /\ ~own => /\ response' = "InternalError"
                             /\ records' = records
                             /\ applied' = applied
      ]_vars

\* an approved update or delete aimed at a record of another trip was
\* answered with an error and changed nothing
C14_Witness ==
    /\ response = "InternalError"
    /\ 1 \in DOMAIN items
    /\ items[1].TripID = "t2"
    /\ items[1].Tool \in UpdateDeleteTools
    /\ records = InitialRecords
    /\ applied[1] = 0

\* C15: once an error event is sent the stream has ended: no delta, proposal
\* or done event follows it, and no proposal is stored afterwards.
C15_ErrorEndsStream ==
    \A i \in 1..Len(sent) : sent[i].type = "error" => i = Len(sent)

\* the error events among the events out
Errors(out) == SelectSeq(out, LAMBDA e : e.type = "error")

\* C16: a streaming turn that fails sends exactly one error event; in
\* particular no turn ever sends more than one.
C16_OneErrorEvent == Len(Errors(sent)) <= 1

\* the argument texts of the provider that are complete JSON objects
ValidArgumentTexts == {TrimSpace(ProviderCalls[id].text) : id \in ItemIDs}

\* C17: while the text accumulated for a function call is not valid JSON, an
\* arguments-done event produces no proposal and stores nothing, whatever
\* item id it carries; a turn that ends without a proposal and without an
\* error has stored nothing and has sent a done event after its deltas.
C17_InvalidArgumentsGiveNoProposal ==
    /\ (/\ spc = "scan"
        /\ callBuffer.active
        /\ TrimSpace(callBuffer.builder) \notin ValidArgumentTexts) =>
           \A e \in ItemIDs \cup {""} :
              LET r == finalizeProposal(callBuffer, e, streamTrip, items, issued + 1, clock, clock)
              IN  /\ ~r.ok
                  /\ r.store = items
                  /\ r.buffer = callBuffer
    /\ (spc = "closed" /\ ~proposalIssued /\ Len(Errors(sent)) = 0) =>
           /\ items = EmptyMap
           /\ Len(sent) > 0
           /\ sent[Len(sent)].type = "done" \/ completed
           /\ \E i \in 1..Len(sent) : sent[i].type = "done"

\* a turn that forwarded text and buffered an incomplete argument text has
\* ended with done and without a proposal
C17_Witness ==
    /\ spc = "closed"
    /\ callBuffer.active
    /\ callBuffer.builder # <<>>
    /\ TrimSpace(callBuffer.builder) \notin ValidArgumentTexts
    /\ Len(sent) = 2
    /\ sent[1].type = "delta"
    /\ sent[2].type = "done"
    /\ items = EmptyMap

\* C18: a proposal reaches the store only in the step that processes an
\* arguments-done event on a complete argument text, while the stream is
\* being read; a turn that was aborted before that step has stored nothing,
\* whatever its buffer holds, and once the handler has returned nothing
\* changes any more.
C18_AbortStoresNothing ==
    /\ [](spc = "closed" /\ ~proposalIssued => items = EmptyMap)
    /\ [][ /\ spc = "closed" => UNCHANGED vars
           /\ items' # items =>
                 /\ spc = "scan"
                 /\ ~proposalIssued
                 /\ proposalIssued'
                 /\ callBuffer.active
                 /\ TrimSpace(callBuffer.builder) \in ValidArgumentTexts
                 /\ Len(sent') = Len(sent) + 1
                 /\ sent'[Len(sent')].type = "proposal"
                 /\ DOMAIN items' = DOMAIN items \cup {sent'[Len(sent')].id}
         ]_vars

\* a turn was aborted while a tool call was partially accumulated: the
\* handler's error event is the only event and the store is empty
C18_Witness ==
    /\ spc = "closed"
    /\ sent = <<HandlerError>>
    /\ callBuffer.active
    /\ callBuffer.builder # <<>>
    /\ TrimSpace(callBuffer.builder) \notin ValidArgumentTexts
    /\ items = EmptyMap

(***************************************************************************)
(* The chat handlers: properties.                                          *)
(***************************************************************************)
\* the key check of the handler of the request let the request through
KeyAccepted ==
    IF chat.handler = "ChatAboutTripItinerary"
    THEN chat.apiKey # <<>>
    ELSE TrimSpace(chat.apiKey) # <<>>

\* the request is one a handler must reject for its body
BodyRejectable == ~chat.bodyOK \/ chat.messages = <<>>

\* C19: when the API key is empty after trimming, every chat request, of the
\* streaming handler or of a non-streaming one, is answered with Service
\* Unavailable before the body is read, the trip context is built or the
\* provider is called, and the answer is the fixed one of its handler.
C19_NoKeyIsUnavailable ==
    (chat.pc # "idle" /\ TrimSpace(chat.apiKey) = <<>>) =>
        /\ chat.pc = "done"
        /\ <<chat.status, chat.error>> =
              (IF chat.handler = "ChatAboutTripItinerary"
               THEN LegacyKeyMissing ELSE KeyMissing)
        /\ ~chat.bodyRead
        /\ ~chat.contextBuilt
        /\ ~chat.providerCalled

\* C20 as stated: a chat request with a malformed body or an empty message
\* list is answered with Bad Request, before a provider call and before an
\* event is streamed, and no proposal is stored for it.
C20_InvalidBodyIsBadRequest ==
    (chat.pc # "idle" /\ BodyRejectable) =>
        /\ chat.pc = "done"
        /\ chat.status = "BadRequest"
        /\ ~chat.providerCalled
        /\ sent = <<>>
        /\ items = EmptyMap

\* C20: a chat request that got past the key check of its handler and has a
\* malformed body or an empty message list is answered with Bad Request
\* after the body was read and before the trip context is built, the
\* provider is called or an event is streamed; no proposal is stored for it.
\* Without the key the same request is answered Service Unavailable.
C20_InvalidBodyWithKeyIsBadRequest ==
    (chat.pc # "idle" /\ BodyRejectable) =>
        /\ chat.pc = "done"
        /\ chat.status = (IF KeyAccepted THEN "BadRequest" ELSE "ServiceUnavailable")
        /\ chat.bodyRead = KeyAccepted
        /\ ~chat.contextBuilt
        /\ ~chat.providerCalled
        /\ spc = "start"
        /\ sent = <<>>
        /\ items = EmptyMap

C20_Witness ==
    /\ chat.pc = "done"
    /\ chat.handler = "TripAssistantStream"
    /\ chat.apiKey = <<"s", "k">>
    /\ chat.bodyOK
    /\ chat.messages = <<>>
    /\ chat.trip \in Trips
    /\ chat.status = "BadRequest"
    /\ chat.error = "at least one message is required"

(***************************************************************************)
(* Decision requests with an invalid payload.                              *)
(***************************************************************************)
\* the decision is none of approve, decline, timeout in any letter case
InvalidDecision(decision) ==
    ToLower(decision) \notin {"approve", "decline", "timeout"}

\* C21 as stated: a decision request whose body does not decode, or whose
\* decision is none of approve, decline, timeout, is answered Bad Request
\* and changes no record.
C21_InvalidPayloadIsBadRequest ==
    [][ \A w \in Workers, r \in Requests :
          (/\ ~r.bodyOK \/ InvalidDecision(r.decision)
           /\ Receive(w, r)) =>
              /\ response' = "BadRequest"
              /\ UNCHANGED <<records, created, applied>>
      ]_vars

\* C21: a request whose body does not decode is answered Bad Request; a
\* decodable request with a decision that is none of approve, decline,
\* timeout is answered Bad Request when its proposal is in the store, is of
\* the requesting trip and is not past its expiry, and otherwise as any
\* decision is: Gone for an absent proposal, Forbidden for the proposal of
\* another trip, Gone with the removal of an expired one. No such request
\* changes a record or is counted as processed.
C21_InvalidPayloadNeverMutates ==
    [][ /\ \A w \in Workers, r \in Requests :
              (/\ ~r.bodyOK \/ InvalidDecision(r.decision)
               /\ Receive(w, r)) =>
                  /\ response' =
                        (IF ~r.bodyOK THEN "BadRequest"
                         ELSE IF r.id \notin DOMAIN items THEN "Gone"
                         ELSE IF items[r.id].TripID # r.trip THEN "Forbidden"
                         ELSE IF clock > items[r.id].ExpiresAt THEN NoResponse
                         ELSE "BadRequest")
                  /\ response' = NoResponse => req'[w].pc = "popExpired"
                  /\ response' # NoResponse => req' = req
                  /\ UNCHANGED <<items, records, created, applied, processed>>
        /\ \A w \in Workers :
              (req[w].pc # "idle" /\ InvalidDecision(req[w].decision)) =>
                  /\ req[w].pc = "popExpired"
                  /\ Steps(w) =>
                        /\ response' = "Gone"
                        /\ UNCHANGED <<records, created, applied, processed>>
      ]_vars

\* a request was answered Bad Request while an unexpired proposal of trip t1
\* is in the store; no record has changed
C21_Witness ==
    /\ response = "BadRequest"
    /\ \E id \in DOMAIN items :
          /\ items[id].TripID = "t1"
          /\ clock <= items[id].ExpiresAt
    /\ records = InitialRecords
    /\ applied = [id \in ProposalIDs |-> 0]
    /\ \A w \in Workers : req[w].pc = "idle"

(***************************************************************************)
(* The lifetime of a proposal.                                             *)
(***************************************************************************)
\* C22: every proposal in the store has ExpiresAt equal to its creation time
\* CreatedAt plus the TTL of two minutes, and it is expired exactly when the
\* current time is later than its ExpiresAt.
C22_ExpiresAtIsCreationPlusTTL ==
    \A id \in DOMAIN items :
        /\ items[id].ExpiresAt = items[id].CreatedAt + proposalTTL
        /\ expired(items[id], clock) <=> clock > items[id].ExpiresAt

(***************************************************************************)
(* The tools of a proposal.                                                *)
(***************************************************************************)
\* the nine tools applyAssistantProposal dispatches on
AssistantTools ==
    {"create_activity", "create_lodging", "create_transportation"} \cup UpdateDeleteTools

\* C23: every proposal in the store and every proposal event sent to the
\* client has one of the nine tools: a function call with another name is
\* rejected before a proposal is made of it.
C23_OnlyEnumeratedTools ==
    /\ \A id \in DOMAIN items : items[id].Tool \in AssistantTools
    /\ \A i \in 1..Len(sent) :
          sent[i].type = "proposal" => sent[i].tool \in AssistantTools

(***************************************************************************)
(* The proposal store under its lock: properties.                          *)
(***************************************************************************)
\* the pops of id that have found the proposal and not yet returned
PopsHolding(id) ==
    {g \in Goroutines : /\ calls[g].op = "pop"
                        /\ calls[g].id = id
                        /\ calls[g].ok
                        /\ calls[g].pc \in {"delete", "unlock"}}

\* C24: a pop is an atomic get-and-remove. Of the pops of one id, in any
\* interleaving with puts, gets and other pops, at most one returns the
\* proposal: no two find it at the same time, none finds it after one has
\* returned it, and a get whose lookup comes after a pop of its id has
\* returned finds nothing. The lookup and the delete of a pop see the same
\* store.
C24_PopIsAtomic ==
    /\ [](\A id \in ProposalIDs :
            /\ popped[id] + Cardinality(PopsHolding(id)) <= 1
            /\ popped[id] > 0 => id \notin DOMAIN items)
    /\ [][ \A g \in Goroutines :
             /\ (calls[g].pc = "body" /\ calls'[g].pc # "body"
                 /\ calls[g].op \in {"get", "pop"} /\ popped[calls[g].id] > 0) =>
                    ~calls'[g].ok
             /\ (calls[g].pc = "delete" /\ calls'[g].pc = "unlock") =>
                    /\ calls[g].id \in DOMAIN items
                    /\ items[calls[g].id] = calls[g].proposal
                    /\ calls[g].id \notin DOMAIN items'
         ]_vars

\* a pop of proposal 1 has returned it, a second pop of it has found nothing
\* and a get of it is waiting for the lock the second pop holds
C24_Witness ==
    /\ popped[1] = 1
    /\ \E g, h \in Goroutines :
          /\ calls[g] = [pc |-> "unlock", op |-> "pop", id |-> 1,
                         proposal |-> NoProposal, ok |-> FALSE]
          /\ mutex.writer = g
          /\ calls[h].op = "get"
          /\ calls[h].id = 1
          /\ calls[h].pc = "lock"

(***************************************************************************)
(* The tool call buffer: properties of the arguments-delta event.          *)
(***************************************************************************)
\* the arguments-delta events the provider can send next: the item
\* identifier of the event and its fragment
NextDeltas ==
    {[itemID |-> e,
      delta |-> SubSeq(ProviderCalls[id].text, provPos[id] + 1,
                       Min(provPos[id] + k, Len(ProviderCalls[id].text)))] :
        id \in ItemIDs, e \in ItemIDs \cup {""}, k \in {0, FragLen}}

\* C25 as stated: the fragment of an arguments-delta event is appended to
\* the text of an accumulating buffer only if the event's item identifier
\* is the recorded one; with any other identifier, or with the buffer idle,
\* the buffer is unchanged.
C25_AppendedOnlyIfItemMatches ==
    \A ev \in NextDeltas :
        handleArgumentsDelta(callBuffer, ev.itemID, ev.delta) =
            IF callBuffer.active /\ ev.itemID = callBuffer.itemID
            THEN [callBuffer EXCEPT !.builder = @ \o ev.delta]
            ELSE callBuffer

\* C25: the fragment of an arguments-delta event is appended to the text of
\* an accumulating buffer if and only if the event's item identifier is the
\* recorded one or the event carries no item identifier; an event with
\* another, non-empty identifier, and any event while the buffer is idle,
\* leaves the buffer unchanged. Name, item identifier and active flag are
\* never changed by the event.
C25_AppendedIfItemMatchesOrIsEmpty ==
    \A ev \in NextDeltas :
        handleArgumentsDelta(callBuffer, ev.itemID, ev.delta) =
            IF callBuffer.active /\ ev.itemID \in {callBuffer.itemID, ""}
            THEN [callBuffer EXCEPT !.builder = @ \o ev.delta]
            ELSE callBuffer

\* the buffer accumulates call fc_1 and holds the start of its arguments,
\* and nothing of the fragments of call fc_2 that were sent under its name
C25_Witness ==
    /\ spc = "scan"
    /\ callBuffer.active
    /\ callBuffer.itemID = "fc_1"
    /\ provPos["fc_1"] = FragLen
    /\ provPos["fc_2"] > 0
    /\ callBuffer.builder = SubSeq(ProviderCalls["fc_1"].text, 1, FragLen)

(***************************************************************************)
(* Fragments of an arguments text: properties.                             *)
(***************************************************************************)
\* C26: for every well-formed arguments text and every way of cutting it
\* into fragments, the buffer holds the text sent so far, and the proposal
\* produced at the arguments-done event has the arguments decoded from the
\* whole text.
C26_SplitDoesNotChangeArguments ==
    /\ Unmarshal(feed.text).ok \/ feed.pc = "idle"
    /\ feed.pc = "sending" =>
          /\ callBuffer.active
          /\ callBuffer.builder = SubSeq(feed.text, 1, feed.pos)
    /\ feed.pc = "done" =>
          /\ issued \in DOMAIN items
          /\ items[issued].Arguments = Unmarshal(feed.text).args
          /\ ~callBuffer.active

\* the text with white space, a number and a string was sent one character
\* a fragment, and the proposal has its two arguments
C26_Witness ==
    /\ feed = [pc |-> "done", text |-> TextSpaced, pos |-> Len(TextSpaced),
               frags |-> Len(TextSpaced)]
    /\ items[issued].Arguments =
          (kCostValue :> Num(12)) @@ (kName :> Str(<<"A", " ", "b">>))

(***************************************************************************)
(* Interleaved function calls: properties.                                 *)
(***************************************************************************)
\* the proposal events among the events out
Proposals(out) == SelectSeq(out, LAMBDA e : e.type = "proposal")

\* C27 as stated: the proposal sent in a turn with interleaved function
\* calls carries the tool name of one call and the arguments decoded from
\* the fragments of that call only.
C27_ProposalOfOneCall ==
    \A i \in 1..Len(sent) :
        sent[i].type = "proposal" =>
            \E c \in ItemIDs :
                /\ sent[i].tool = ProviderCalls[c].name
                /\ sent[i].arguments = Unmarshal(ProviderCalls[c].text).args

\* C27: the buffer holds one call, the one that started last: its name and
\* item identifier are of the same call, and its text starts empty when the
\* call starts. An arguments-delta event that carries an item identifier
\* adds to the text only if it is of that call; fragments of another call
\* get in only with events that carry no identifier. At most one proposal is
\* sent in a turn, and it has the name of the call in the buffer and the
\* arguments decoded from the text of the buffer.
C27_ProposalOfTheBufferedCall ==
    /\ [](/\ Len(Proposals(sent)) <= 1
          /\ callBuffer.active =>
                callBuffer.name = ProviderCalls[callBuffer.itemID].name)
    /\ [][ /\ callBuffer'.itemID # callBuffer.itemID => callBuffer'.builder = <<>>
           /\ \A id \in ItemIDs, k \in {0, FragLen} :
                 (/\ ArgumentsDelta(id, id, k)
                  /\ callBuffer'.builder # callBuffer.builder) =>
                     /\ callBuffer.active
                     /\ id = callBuffer.itemID
           /\ Len(Proposals(sent')) > Len(Proposals(sent)) =>
                 /\ callBuffer.active
                 /\ sent' = Append(sent, sent'[Len(sent')])
                 /\ sent'[Len(sent')].tool = ProviderCalls[callBuffer.itemID].name
                 /\ sent'[Len(sent')].arguments =
                       Unmarshal(TrimSpace(callBuffer.builder)).args
                 /\ Unmarshal(TrimSpace(callBuffer.builder)).ok
         ]_vars

\* call fc_1 was streamed to its end, and the proposal sent is the one of
\* call fc_2, with the arguments of call fc_2
C27_Witness ==
    /\ provPos["fc_1"] = Len(ProviderCalls["fc_1"].text)
    /\ provPos["fc_2"] = Len(ProviderCalls["fc_2"].text)
    /\ Len(Proposals(sent)) = 1
    /\ Proposals(sent)[1].tool = ProviderCalls["fc_2"].name
    /\ Proposals(sent)[1].arguments = Unmarshal(ProviderCalls["fc_2"].text).args

(***************************************************************************)
(* The prompt of the streaming path: properties.                           *)
(***************************************************************************)
\* the indices of the messages of ms that go into the prompt
Kept(ms) ==
    {i \in 1..Len(ms) : ms[i].role \in {"user", "assistant"} /\ ms[i].content # <<>>}

\* C28: the prompt built for the streaming path is the two instruction turns
\* followed by exactly the caller's messages whose role is user or assistant
\* and whose content is non-empty, each once, with its role and its whole
\* content, in their original order and whatever their number; nothing else
\* is in the prompt.
C28_PromptIsInstructionsThenKeptMessages ==
    prompt.pc = "built" =>
        LET ms == prompt.messages
            input == prompt.input
        IN  /\ Len(input) = 2 + Cardinality(Kept(ms))
            /\ input[1].role = "developer" /\ input[1].content[1].text = systemPrompt
            /\ input[2].role = "developer" /\ input[2].content[1].text = contextPrompt
            /\ \A i \in Kept(ms) :
                  LET at == 2 + Cardinality({j \in Kept(ms) : j <= i})
                  IN  /\ input[at].role = ms[i].role
                      /\ Len(input[at].content) = 1
                      /\ input[at].content[1].text = ms[i].content

\* a prompt built from two messages, the first of which is dropped
C28_Witness ==
    /\ prompt.pc = "built"
    /\ Len(prompt.messages) = 2
    /\ Kept(prompt.messages) = {2}
    /\ prompt.messages[1].role = "system"
    /\ Len(prompt.input) = 3

(***************************************************************************)
(* The trip context snapshot: properties.                                  *)
(***************************************************************************)
\* the row with record id in the database of the snapshot
RowOf(id) == snapshot.rows[id]

\* C29: in the trip context each child list holds, once each, exactly the
\* records of its collection whose trip is the requested trip, in ascending
\* order of the primary time field: the departure time for transportation,
\* the check-in date for lodging, the start date for activities.
C29_ChildListsAreFilteredAndSorted ==
    snapshot.pc = "built" =>
        \A coll \in ChildCollections :
            LET list == snapshot.ctx[coll]
                mine == {i \in 1..Len(snapshot.rows) :
                            /\ snapshot.rows[i].collection = coll
                            /\ snapshot.rows[i].trip = snapshot.trip}
            IN  /\ {list[i].Id : i \in 1..Len(list)} = mine
                /\ Len(list) = Cardinality(mine)
                /\ \A i, j \in 1..Len(list) :
                      i < j => GetDateTime(RowOf(list[i].Id), StartField(coll))
                                  <= GetDateTime(RowOf(list[j].Id), StartField(coll))
                /\ \A i \in 1..Len(list) :
                      list[i].Start =
                          formatDate(GetDateTime(RowOf(list[i].Id), StartField(coll)))

\* a context with two transportation records of the trip, stored in the
\* order opposite to their departure times
C29_Witness ==
    /\ snapshot.pc = "built"
    /\ Len(snapshot.ctx["transportations"]) = 2
    /\ snapshot.ctx["transportations"][1].Id = 2
    /\ snapshot.ctx["transportations"][1].Start # snapshot.ctx["transportations"][2].Start

(***************************************************************************)
(* No sweep of the proposal store: properties.                             *)
(***************************************************************************)
\* the requests that are about to pop the proposal id
PoppingRequests(id) ==
    {w \in Workers : req[w].pc \in {"popExpired", "apply", "pop"} /\ req[w].id = id}

\* C30: nothing sweeps the store. A proposal leaves the store only in a step
\* of a decision request that names its id, which ends the request; the
\* passing of time removes nothing, so a proposal nobody asks for is still
\* stored after its expiresAt; and no step alters a stored proposal, so a
\* decision request for one id leaves the proposals of the other ids as they
\* were.
C30_NoSweep ==
    [][ /\ \A id \in DOMAIN items :
              /\ id \in DOMAIN items' => items'[id] = items[id]
              /\ id \notin DOMAIN items' =>
                    /\ clock' = clock
                    /\ \E w \in PoppingRequests(id) : req'[w] = Idle
                    /\ DOMAIN items' = DOMAIN items \ {id}
        /\ clock' # clock => DOMAIN items \subseteq DOMAIN items'
      ]_vars

\* two proposals were stored and both have expired; a decision request has
\* removed the first, and the second, which no request has named, is still
\* in the store
C30_Witness ==
    /\ issued = 2
    /\ DOMAIN items = {2}
    /\ expired(items[2], clock)
    /\ processed[2] = 0 /\ applied[2] = 0
    /\ \A w \in Workers : req[w].pc = "idle"
    /\ response = "Gone"

(***************************************************************************)
(* The decisions of the client: properties.                                *)
(***************************************************************************)
\* C31: for each proposal the client submits at most one decision request;
\* the timeout decision is submitted at most once, only when the countdown
\* has reached zero, and only if no approve or decline was submitted before.
C31_AtMostOneDecision ==
    /\ Len(client.submitted) <= 1
    /\ "timeout" \in client.inFlight => client.diff <= 0

(***************************************************************************)
(* The read loop of the client: properties.                                *)
(***************************************************************************)
\* the number of record delimiters in s
Delimiters(s) == Len(Split(s, <<"\n", "\n">>)) - 1

C33_TurnTerminates ==
    Scanning ~> (spc = "closed" /\ Len(Terminals(sent)) >= 1)

\* a turn that has returned at the end of a stream that completed while a
\* function call was still in the buffer
C33_Witness ==
    /\ spc = "closed"
    /\ completed
    /\ callBuffer.active
    /\ ~proposalIssued
    /\ Len(textIn) >= 1

(***************************************************************************)
(* The proposal sent and the proposal stored: properties.                  *)
(***************************************************************************)
\* C34: every proposal event sent refers to a proposal that is in the store
\* under the id of the event, with the tool and the arguments of the event
\* and with the trip of the streaming request; and no step changes a field
\* of a proposal that stays in the store.
C34_SentProposalIsStored ==
    /\ [](\A i \in 1..Len(sent) :
             sent[i].type = "proposal" =>
                 /\ sent[i].id \in DOMAIN items
                 /\ items[sent[i].id].ID = sent[i].id
                 /\ items[sent[i].id].Tool = sent[i].tool
                 /\ items[sent[i].id].Arguments = sent[i].arguments
                 /\ items[sent[i].id].TripID = streamTrip
                 /\ streamTrip = chat.trip)
    /\ [][\A id \in DOMAIN items \cap DOMAIN items' : items'[id] = items[id]]_vars

\* a proposal event of trip t2 with arguments was sent
C34_Witness ==
    /\ Len(sent) >= 1
    /\ sent[Len(sent)].type = "proposal"
    /\ sent[Len(sent)].arguments # EmptyMap
    /\ streamTrip = "t2"
    /\ DOMAIN items = {sent[Len(sent)].id}

(***************************************************************************)
(* The arguments-finished event that gives no proposal: properties.        *)
(***************************************************************************)
\* finalizeProposal on the buffer and the store as they are, for an event
\* with item identifier e
Finalized(e) ==
    finalizeProposal(callBuffer, e, streamTrip, items, issued + 1, clock, clock)

\* C35: finalizeProposal changes the buffer and the store only when it gives
\* a proposal: then the buffer is idle and empty and the store has the
\* proposal more; when it gives none (the buffer is idle, the item identifier
\* is of another call, the text is empty or does not decode) the buffer and
\* the store are as they were, so that the call goes on accumulating.
C35_NoProposalChangesNothing ==
    Scanning =>
        \A e \in ItemIDs \cup {""} :
            LET r == Finalized(e)
                failing == \/ ~callBuffer.active
                           \/ e # "" /\ e # callBuffer.itemID
                           \/ TrimSpace(callBuffer.builder) = <<>>
                           \/ ~Unmarshal(TrimSpace(callBuffer.builder)).ok
            IN  /\ r.ok <=> ~failing
                /\ ~r.ok => r.buffer = callBuffer /\ r.store = items
                /\ r.ok =>
                      /\ r.buffer = [callBuffer EXCEPT !.active = FALSE,
                                                       !.builder = <<>>,
                                                       !.itemID = ""]
                      /\ DOMAIN r.store = DOMAIN items \cup {issued + 1}
                      /\ \A id \in DOMAIN items : r.store[id] = items[id]

\* the buffer holds the start of the arguments of call fc_1, which does not
\* decode yet: an arguments-finished event now gives no proposal, and one
\* after the rest of the text does
C35_Witness ==
    /\ Scanning
    /\ callBuffer.active
    /\ callBuffer.itemID = "fc_1"
    /\ callBuffer.builder = SubSeq(ProviderCalls["fc_1"].text, 1, FragLen)
    /\ ~Finalized("fc_1").ok
    /\ finalizeProposal(handleArgumentsDelta(callBuffer, "fc_1",
           SubSeq(ProviderCalls["fc_1"].text, FragLen + 1,
                  Len(ProviderCalls["fc_1"].text))),
         "fc_1", streamTrip, items, issued + 1, clock, clock).ok

(***************************************************************************)
(* The requests answered Forbidden or Bad Request: properties.             *)
(***************************************************************************)
\* C36: a step that answers a decision request Forbidden or Bad Request
\* changes neither the store nor a record, so the proposal it names is still
\* there to be decided; and a request of another trip for a stored proposal
\* is answered Forbidden whether the proposal has expired or not, the trip
\* being checked before the expiry.
C36_RefusedRequestKeepsProposal ==
    /\ [](\A id \in DOMAIN items, trip \in Trips, decision \in Decisions :
             items[id].TripID # trip =>
                 Route(items, clock, id, trip, TRUE, decision) = "Forbidden")
    /\ [][response' \in {"Forbidden", "BadRequest"} =>
             /\ items' = items
             /\ records' = records
             /\ req' = req
             /\ applied' = applied
             /\ processed' = processed]_vars

\* a request of another trip was answered Forbidden for a proposal that has
\* expired and is still in the store
C36_Witness ==
    /\ response = "Forbidden"
    /\ 1 \in DOMAIN items
    /\ expired(items[1], clock)
    /\ processed[1] = 0

(***************************************************************************)
(* The updates of an approved proposal.                                    *)
(***************************************************************************)
UpdateTools == {"update_activity", "update_lodging", "update_transportation"}

\* the argument each field of a collection is updated from
ArgumentKeys(collection) ==
    CASE collection = "activities" ->
            { <<"name", kName>>, <<"description", kDescription>>,
              <<"address", kAddress>>, <<"notes", kNotes>>,
              <<"startDate", kStartTime>>, <<"endDate", kEndTime>> }
      [] collection = "lodgings" ->
            { <<"name", kName>>, <<"type", kType>>, <<"address", kAddress>>,
              <<"startDate", kStartTime>>, <<"endDate", kEndTime>>,
              <<"confirmationCode", kConfirmation>>, <<"notes", kNotes>> }
      [] collection = "transportations" ->
            { <<"type", kType>>, <<"provider", kProvider>>, <<"origin", kOrigin>>,
              <<"destination", kDestination>>, <<"departureTime", kDepartureTime>>,
              <<"arrivalTime", kArrivalTime>>, <<"notes", kNotes>> }

\* the argument is absent or the empty string
NotGiven(args, key) == key \notin DOMAIN args \/ (args[key].kind = "str" /\ args[key].s = <<>>)

\* the step in which the mutation of an approved proposal of one of tools
\* is written to the record store
Applies(tools) ==
    /\ req[1].pc = "apply"
    /\ req[1].proposal.Tool \in tools
    /\ applied' # applied

\* what an update leaves alone whatever its arguments: the other records,
\* the id, the collection and the trip of its target, and every text field
\* whose argument is not given
UpdateKeeps(id, args) ==
    /\ DOMAIN records' = DOMAIN records
    /\ \A k \in DOMAIN records \ {id} : records'[k] = records[k]
    /\ records'[id].trip = records[id].trip
    /\ records'[id].collection = records[id].collection
    /\ \A p \in ArgumentKeys(records[id].collection) :
          NotGiven(args, p[2]) => records'[id].fields[p[1]] = records[id].fields[p[1]]

\* C37 as stated: an approved update changes only the fields whose argument
\* carries a non-empty value; every field whose argument is absent or the
\* empty string keeps its value, the cost included, and the trip reference
\* and the id of the record never change
C37_UpdateChangesOnlyGivenFields ==
    [][Applies(UpdateTools) =>
          LET args == req[1].proposal.Arguments
              id == stringValue(args, kRecordId)
          IN  /\ UpdateKeeps(id, args)
              /\ (NotGiven(args, kCostValue) /\ NotGiven(args, kCostCurrency))
                    => records'[id].cost = records[id].cost]_vars

\* C37 amended: an approved update changes no other record and never the
\* trip reference or the id of its target; every text field whose argument
\* is absent or the empty string keeps its value; the cost keeps its value
\* when neither cost_value nor cost_currency is a key of the arguments, and
\* always in an update of a lodging or a transportation
C37_UpdateChangesOnlyGivenTextFields ==
    [][Applies(UpdateTools) =>
          LET args == req[1].proposal.Arguments
              id == stringValue(args, kRecordId)
          IN  /\ UpdateKeeps(id, args)
              /\ (\/ req[1].proposal.Tool # "update_activity"
                  \/ (kCostValue \notin DOMAIN args /\ kCostCurrency \notin DOMAIN args))
                    => records'[id].cost = records[id].cost]_vars

\* the activity created first, with its name and its cost, after an update
\* that gave a description and no name
C37_Witness ==
    /\ NewRecordID(1) \in DOMAIN records
    /\ records[NewRecordID(1)].fields["name"] = <<"B">>
    /\ records[NewRecordID(1)].fields["description"] = <<"x">>
    /\ records[NewRecordID(1)].cost = [value |-> 5, currency |-> <<"E">>]
    /\ records[NewRecordID(1)].trip = "t1"

\* the cost the arguments give, when they give a valid one
ValidCost(args) ==
    floatValue(args, kCostValue) > 0 /\ stringValue(args, kCostCurrency) # <<>>

CostOf(args) ==
    [value |-> floatValue(args, kCostValue), currency |-> stringValue(args, kCostCurrency)]

\* C38: a created activity has the cost of its arguments when cost_value is
\* greater than 0 and cost_currency is non-empty and no cost otherwise; an
\* updated activity keeps its cost when neither key is in the arguments, has
\* the cost of the arguments when both are valid, and has no cost when a key
\* is present but the value is not greater than 0 or the currency is empty
C38_ActivityCost ==
    [][/\ Applies({"create_activity"}) =>
             LET args == req[1].proposal.Arguments
                 id == NewRecordID(created + 1)
             IN  /\ id \in DOMAIN records'
                 /\ records'[id].cost = IF ValidCost(args) THEN CostOf(args) ELSE NoCost
       /\ Applies({"update_activity"}) =>
             LET args == req[1].proposal.Arguments
                 id == stringValue(args, kRecordId)
             IN  records'[id].cost =
                    IF kCostValue \notin DOMAIN args /\ kCostCurrency \notin DOMAIN args
                    THEN records[id].cost
                    ELSE IF ValidCost(args) THEN CostOf(args)
                    ELSE NoCost]_vars

\* the activity created with a cost has lost it in an update whose arguments
\* have an empty cost_currency and no cost_value
C38_Witness ==
    /\ req[1].pc = "pop"
    /\ req[1].proposal.Tool = "update_activity"
    /\ kCostCurrency \in DOMAIN req[1].proposal.Arguments
    /\ kCostValue \notin DOMAIN req[1].proposal.Arguments
    /\ stringValue(req[1].proposal.Arguments, kRecordId) = NewRecordID(1)
    /\ records[NewRecordID(1)].fields["name"] = <<"B">>
    /\ records[NewRecordID(1)].cost = NoCost

====
